---- MODULE Spec2Model ----
(***************************************************************************)
(* Model of the todo-app-hex domain core: the TodoTitle / TodoId /         *)
(* TodoStatus value objects, the Todo entity, the in-memory repository     *)
(* adapter and the use cases built on them.                                *)
(*                                                                         *)
(* JavaScript strings that are validated (titles) are sequences of one-    *)
(* character strings, so that trim() and length are computed.  Optional    *)
(* values (undefined / absent property) are sequences of length 0 or 1.    *)
(* Dates are numbers of milliseconds read from the clock `now`.            *)
(***************************************************************************)
EXTENDS Integers, Sequences, FiniteSets, TLC

VARIABLES
    titleIn,    \* the string handed to `new TodoTitle(...)`
    titleOut,   \* outcome of that construction
    now,        \* the system clock, as read by `new Date()` / Date.now()
    todo,       \* the Todo instance under test (Undef before construction)
    last,       \* record of the last call made on the entity
    todos,      \* InMemoryTodoRepository.todos : Map<string, TodoProps>
    result,     \* outcome of the last use-case execution
    collection, \* MongoTodoRepository.collection: the documents and its id index
    mresult,    \* outcome of the last use-case execution over MongoDB
    adapter,    \* which TodoRepository the container wired: "memory" / "mongo"
    procs,      \* the use-case executions in flight, one per caller
    env,        \* process.env as Config reads it
    config,     \* the Config instance
    container,  \* the private fields of the DependencyContainer
    mongoClient,\* the private fields of the MongoDBClient
    callers,    \* the connect() / disconnect() calls in flight
    server,     \* where startServer() and the signal handlers stand
    heap,       \* the Date objects allocated, by reference
    held        \* the Todo entities a caller holds

(* the state of the infrastructure and of the adapters beyond the core *)
ext == <<collection, mresult, adapter, procs, env, config, container,
         mongoClient, callers, server, heap, held>>

vars == <<titleIn, titleOut, now, todo, last, todos, result, ext>>

----------------------------------------------------------------------------
(* Bounds of the model *)

MaxPad == 2       \* longest run of leading / trailing whitespace tried
MaxClock == 1     \* the clock stops advancing at this reading
MaxRand == 1      \* number of distinct random suffixes generateId can draw
MaxTodos == 2     \* the repository never holds more Todos than this

(* Program constant *)
MaxTitleLength == 200

----------------------------------------------------------------------------
(* Optional values *)

Undef == <<>>
Some(v) == <<v>>
IsDefined(o) == o # <<>>
Val(o) == o[1]

(* JavaScript `a || b` on an optional string-like value whose empty value  *)
(* is `empty`: undefined and the empty value are falsy.                    *)
OrElse(o, empty, dflt) == IF IsDefined(o) /\ Val(o) # empty THEN Val(o) ELSE dflt

(* `a || b` on an optional object (a Date): every object is truthy.  *)
OrElseObj(o, dflt) == IF IsDefined(o) THEN Val(o) ELSE dflt

----------------------------------------------------------------------------
(* Strings *)

Whitespace == {" ", "\t"}

Rep(c, n) == [i \in 1..n |-> c]

RECURSIVE trimStart(_)
trimStart(s) ==
    IF s # <<>> /\ Head(s) \in Whitespace THEN trimStart(Tail(s)) ELSE s

RECURSIVE trimEnd(_)
trimEnd(s) ==
    IF s # <<>> /\ s[Len(s)] \in Whitespace
    THEN trimEnd(SubSeq(s, 1, Len(s) - 1))
    ELSE s

trim(s) == trimEnd(trimStart(s))

----------------------------------------------------------------------------
(* Errors: the class thrown and its message *)

Err(class, msg) == [ok |-> FALSE, class |-> class, msg |-> msg]

EmptyTitleMsg == "Todo title cannot be empty"
LongTitleMsg == "Todo title cannot exceed 200 characters"
AlreadyCompletedMsg == "Todo is already completed"
AlreadyPendingMsg == "Todo is already pending"

----------------------------------------------------------------------------
(* TodoTitle *)

(* Faulty variant of validate: the length test is >= instead of >. *)
TitleTooLongAt200(value) ==
    IF ~IsDefined(value) \/ Val(value) = <<>> \/ Len(trim(Val(value))) = 0
    THEN Some(Err("Error", EmptyTitleMsg))
    ELSE IF Len(trim(Val(value))) >= MaxTitleLength
    THEN Some(Err("Error", LongTitleMsg))
    ELSE Undef

(* TodoTitle.validate: `value` is an optional string (undefined is falsy). *)
(* Returns the error thrown, or Undef when validation passes.              *)
validate(value) ==
    IF ~IsDefined(value) \/ Val(value) = <<>> \/ Len(trim(Val(value))) = 0
    THEN Some(Err("Error", EmptyTitleMsg))
    ELSE IF Len(trim(Val(value))) > MaxTitleLength
    THEN Some(Err("Error", LongTitleMsg))
    ELSE Undef

(* new TodoTitle(value): the error thrown by validate, or the value object *)
TodoTitle(value) ==
    IF IsDefined(validate(value))
    THEN Val(validate(value))
    ELSE [ok |-> TRUE, value |-> trim(Val(value))]

----------------------------------------------------------------------------
(* TodoId *)

(* generateId: `${Date.now()}-${random suffix}`; t is the clock reading,   *)
(* r the random draw.                                                      *)
generateId(t, r) == ToString(t) \o "-" \o ToString(r)

(* new TodoId(value).getValue() *)
TodoId(value, t, r) == OrElse(value, "", generateId(t, r))

----------------------------------------------------------------------------
(* TodoStatus *)

PENDING == "PENDING"
COMPLETED == "COMPLETED"
TodoStatusEnum == {PENDING, COMPLETED}

(* new TodoStatus(value).getValue(): the default parameter applies to      *)
(* undefined only; the value is stored as given.                           *)
TodoStatus(value) == IF IsDefined(value) THEN Val(value) ELSE PENDING

isPending(status) == status = PENDING
isCompleted(status) == status = COMPLETED

----------------------------------------------------------------------------
(* Todo entity.  An instance is the record of its six private fields.      *)

(* Faulty variant of the constructor: updatedAt is always read from the    *)
(* clock, props.updatedAt is ignored.                                      *)
TodoConstructorClockForUpdatedAt(props, t0, r, t1, t2) ==
    LET title == TodoTitle(props.title) IN
    IF ~title.ok THEN title
    ELSE [ok |-> TRUE,
          todo |-> [id          |-> TodoId(props.id, t0, r),
                    title       |-> title.value,
                    description |-> OrElse(props.description, "", ""),
                    status      |-> TodoStatus(props.status),
                    createdAt   |-> OrElseObj(props.createdAt, t1),
                    updatedAt   |-> t2]]

(* new Todo(props).  t0 is the clock read by generateId (line 23), t1 the  *)
(* clock read for createdAt (line 27), t2 the one for updatedAt (line 28). *)
(* Yields the thrown error, or [ok, todo].                                 *)
TodoConstructor(props, t0, r, t1, t2) ==
    LET title == TodoTitle(props.title) IN
    IF ~title.ok THEN title
    ELSE [ok |-> TRUE,
          todo |-> [id          |-> TodoId(props.id, t0, r),
                    title       |-> title.value,
                    description |-> OrElse(props.description, "", ""),
                    status      |-> TodoStatus(props.status),
                    createdAt   |-> OrElseObj(props.createdAt, t1),
                    updatedAt   |-> OrElseObj(props.updatedAt, t2)]]

(* Faulty variant of updateTitle: updatedAt is refreshed before the title  *)
(* is validated.                                                           *)
updateTitleTouchFirst(t, title, clk) ==
    LET nt == TodoTitle(Some(title)) IN
    IF ~nt.ok THEN nt @@ [todo |-> [t EXCEPT !.updatedAt = clk]]
    ELSE [ok |-> TRUE, todo |-> [t EXCEPT !.title = nt.value, !.updatedAt = clk]]

(* t.updateTitle(title) at clock reading clk *)
updateTitle(t, title, clk) ==
    LET nt == TodoTitle(Some(title)) IN
    IF ~nt.ok THEN nt @@ [todo |-> t]
    ELSE [ok |-> TRUE, todo |-> [t EXCEPT !.title = nt.value, !.updatedAt = clk]]

(* t.updateDescription(description) *)
updateDescription(t, description, clk) ==
    [ok |-> TRUE, todo |-> [t EXCEPT !.description = description, !.updatedAt = clk]]

(* Faulty variants of complete: updatedAt not refreshed; guard missing. *)
completeKeepsUpdatedAt(t, clk) ==
    IF isCompleted(t.status)
    THEN Err("Error", AlreadyCompletedMsg) @@ [todo |-> t]
    ELSE [ok |-> TRUE, todo |-> [t EXCEPT !.status = COMPLETED]]

completeUnguarded(t, clk) ==
    [ok |-> TRUE, todo |-> [t EXCEPT !.status = COMPLETED, !.updatedAt = clk]]

(* t.complete() *)
complete(t, clk) ==
    IF isCompleted(t.status)
    THEN Err("Error", AlreadyCompletedMsg) @@ [todo |-> t]
    ELSE [ok |-> TRUE, todo |-> [t EXCEPT !.status = COMPLETED, !.updatedAt = clk]]

(* Faulty variant of reopen: guard missing. *)
reopenUnguarded(t, clk) ==
    [ok |-> TRUE, todo |-> [t EXCEPT !.status = PENDING, !.updatedAt = clk]]

(* t.reopen() *)
reopen(t, clk) ==
    IF isPending(t.status)
    THEN Err("Error", AlreadyPendingMsg) @@ [todo |-> t]
    ELSE [ok |-> TRUE, todo |-> [t EXCEPT !.status = PENDING, !.updatedAt = clk]]

(* t.toObject(): the flat TodoProps *)
toObject(t) ==
    [id          |-> Some(t.id),
     title       |-> Some(t.title),
     description |-> Some(t.description),
     status      |-> Some(t.status),
     createdAt   |-> Some(t.createdAt),
     updatedAt   |-> Some(t.updatedAt)]

(* MongoTodoRepository.toDomain(document): every property is copied into   *)
(* the props and handed to the constructor.                                *)
toDomain(document, t0, r, t1, t2) ==
    TodoConstructor([id          |-> Some(document.id),
                     title       |-> Some(document.title),
                     description |-> Some(document.description),
                     status      |-> Some(document.status),
                     createdAt   |-> Some(document.createdAt),
                     updatedAt   |-> Some(document.updatedAt)],
                    t0, r, t1, t2)

----------------------------------------------------------------------------
(* JavaScript Map<string, TodoProps>: the entries in insertion order *)

mapHas(m, k) == \E i \in 1..Len(m) : m[i].key = k

mapGet(m, k) == m[CHOOSE i \in 1..Len(m) : m[i].key = k].value

(* Map.set: an existing key keeps its place, a new key goes last *)
mapSet(m, k, v) ==
    IF mapHas(m, k)
    THEN [i \in 1..Len(m) |-> IF m[i].key = k THEN [key |-> k, value |-> v] ELSE m[i]]
    ELSE Append(m, [key |-> k, value |-> v])

(* Map.delete *)
mapDelete(m, k) == SelectSeq(m, LAMBDA e : e.key # k)

mapKeys(m) == {m[i].key : i \in 1..Len(m)}

----------------------------------------------------------------------------
(* InMemoryTodoRepository.  Each method takes the map and yields the new   *)
(* map with what the method returns or throws.  A Todo built from stored   *)
(* props reads no clock: `rebuild` hands the constructor readings it does  *)
(* not use when every property is present.                                 *)

rebuild(todoData, clk) == TodoConstructor(todoData, clk, 1, clk, clk)

NotFoundMsg(id) == "Todo with id " \o id \o " not found"

(* Faulty variant of save: the copy is returned but never put in the Map. *)
repoSaveNoStore(m, t, clk) ==
    LET todoData == toObject(t) IN
    rebuild(todoData, clk) @@ [todos |-> m]

(* save(todo) *)
repoSave(m, t, clk) ==
    LET todoData == toObject(t) IN
    rebuild(todoData, clk) @@ [todos |-> mapSet(m, t.id, todoData)]

(* findById(id): null is Undef *)
repoFindById(m, id, clk) ==
    IF ~mapHas(m, id) THEN Undef ELSE Some(rebuild(mapGet(m, id), clk))

(* findAll() *)
repoFindAll(m, clk) == [i \in 1..Len(m) |-> rebuild(m[i].value, clk)]

(* Faulty variant of update: the stored record is rebuilt with the time of *)
(* the write as its createdAt.                                             *)
repoUpdateResetsCreatedAt(m, t, clk) ==
    LET todoData == [toObject(t) EXCEPT !.createdAt = Some(t.updatedAt)] IN
    IF ~mapHas(m, t.id)
    THEN Err("Error", NotFoundMsg(t.id)) @@ [todos |-> m]
    ELSE rebuild(todoData, clk) @@ [todos |-> mapSet(m, t.id, todoData)]

(* update(todo) *)
repoUpdate(m, t, clk) ==
    LET todoData == toObject(t) IN
    IF ~mapHas(m, t.id)
    THEN Err("Error", NotFoundMsg(t.id)) @@ [todos |-> m]
    ELSE rebuild(todoData, clk) @@ [todos |-> mapSet(m, t.id, todoData)]

(* Faulty variant of delete: the whole Map is cleared. *)
repoDeleteClears(m, id) == [ok |-> TRUE, ret |-> mapHas(m, id), todos |-> <<>>]

(* delete(id) *)
repoDelete(m, id) == [ok |-> TRUE, ret |-> mapHas(m, id), todos |-> mapDelete(m, id)]

----------------------------------------------------------------------------
(* MongoTodoRepository.  The collection is the sequence of its documents   *)
(* in insertion order, with the flag telling whether the unique index on   *)
(* id exists: ensureIndexes swallows the error when createIndex fails.     *)
(* Each driver call (insertOne, findOne, find, updateOne, deleteOne) is    *)
(* atomic in the server.                                                   *)

DuplicateKeyMsg == "E11000 duplicate key error"

(* Faulty variant of toDocument: the description is always written empty. *)
toDocumentBlankDescription(t) ==
    LET todoData == toObject(t) IN
    [id          |-> Val(todoData.id),
     title       |-> Val(todoData.title),
     description |-> "",
     status      |-> Val(todoData.status),
     createdAt   |-> Val(todoData.createdAt),
     updatedAt   |-> Val(todoData.updatedAt)]

(* toDocument(todo) *)
toDocument(t) ==
    LET todoData == toObject(t) IN
    [id          |-> Val(todoData.id),
     title       |-> Val(todoData.title),
     description |-> OrElse(todoData.description, "", ""),
     status      |-> Val(todoData.status),
     createdAt   |-> Val(todoData.createdAt),
     updatedAt   |-> Val(todoData.updatedAt)]

(* the filter { id } matches a document; the first one it matches *)
hasDoc(docs, id) == \E i \in 1..Len(docs) : docs[i].id = id

firstDoc(docs, id) ==
    CHOOSE i \in 1..Len(docs) :
        docs[i].id = id /\ \A j \in 1..(i - 1) : docs[j].id # id

(* a Todo built from a document reads no clock: every property is present *)
fromDocument(document, clk) == toDomain(document, clk, 1, clk, clk)

(* .sort({ createdAt: -1 }): latest first, equal dates in stored order *)
RECURSIVE sortByCreatedAtDesc(_)
sortByCreatedAtDesc(docs) ==
    IF docs = <<>> THEN <<>>
    ELSE LET i == CHOOSE k \in 1..Len(docs) :
                      /\ \A j \in 1..Len(docs) : docs[j].createdAt <= docs[k].createdAt
                      /\ \A j \in 1..(k - 1) : docs[j].createdAt < docs[k].createdAt
         IN  <<docs[i]>> \o sortByCreatedAtDesc(SubSeq(docs, 1, i - 1)
                                                   \o SubSeq(docs, i + 1, Len(docs)))

(* save(todo): insertOne *)
mongoSave(col, t, clk) ==
    LET document == toDocument(t) IN
    IF col.uniqueId /\ hasDoc(col.docs, document.id)
    THEN Err("MongoServerError", DuplicateKeyMsg) @@ [todos |-> col]
    ELSE fromDocument(document, clk)
             @@ [todos |-> [col EXCEPT !.docs = Append(@, document)]]

(* findById(id): findOne *)
mongoFindById(col, id, clk) ==
    IF ~hasDoc(col.docs, id) THEN Undef
    ELSE Some(fromDocument(col.docs[firstDoc(col.docs, id)], clk))

(* findAll(): find({}).sort({ createdAt: -1 }) *)
mongoFindAll(col, clk) ==
    LET documents == sortByCreatedAtDesc(col.docs) IN
    [i \in 1..Len(documents) |-> fromDocument(documents[i], clk)]

(* Faulty variant of update: updateOne with { upsert: true }. *)
mongoUpdateUpserts(col, t, clk) ==
    LET document == toDocument(t) IN
    IF ~hasDoc(col.docs, document.id)
    THEN fromDocument(document, clk)
             @@ [todos |-> [col EXCEPT !.docs = Append(@, document)]]
    ELSE fromDocument(document, clk)
             @@ [todos |-> [col EXCEPT !.docs[firstDoc(col.docs, document.id)] =
                               [@ EXCEPT !.title = document.title,
                                         !.description = document.description,
                                         !.status = document.status,
                                         !.updatedAt = document.updatedAt]]]

(* update(todo): updateOne with $set of title, description, status and     *)
(* updatedAt                                                               *)
mongoUpdate(col, t, clk) ==
    LET document == toDocument(t) IN
    IF ~hasDoc(col.docs, document.id)
    THEN Err("Error", NotFoundMsg(document.id)) @@ [todos |-> col]
    ELSE fromDocument(document, clk)
             @@ [todos |-> [col EXCEPT !.docs[firstDoc(col.docs, document.id)] =
                               [@ EXCEPT !.title = document.title,
                                         !.description = document.description,
                                         !.status = document.status,
                                         !.updatedAt = document.updatedAt]]]

(* delete(id): deleteOne *)
mongoDelete(col, id) ==
    IF ~hasDoc(col.docs, id) THEN [ok |-> TRUE, ret |-> FALSE, todos |-> col]
    ELSE LET i == firstDoc(col.docs, id) IN
         [ok |-> TRUE, ret |-> TRUE,
          todos |-> [col EXCEPT !.docs = SubSeq(@, 1, i - 1) \o SubSeq(@, i + 1, Len(@))]]

(* the ids stored, whatever the adapter a is *)
storedIds(a, st) ==
    IF a = "memory" THEN mapKeys(st) ELSE {st.docs[i].id : i \in 1..Len(st.docs)}

(* the serialized Todo stored under id *)
storedTodo(a, st, id) ==
    IF a = "memory" THEN mapGet(st, id)
    ELSE toObject(fromDocument(st.docs[firstDoc(st.docs, id)], 0).todo)

----------------------------------------------------------------------------
(* The TodoRepository port: the use cases call whichever adapter a the     *)
(* container wired, on its store st.                                       *)

saveVia(a, st, t, clk) ==
    IF a = "memory" THEN repoSave(st, t, clk) ELSE mongoSave(st, t, clk)

findByIdVia(a, st, id, clk) ==
    IF a = "memory" THEN repoFindById(st, id, clk) ELSE mongoFindById(st, id, clk)

findAllVia(a, st, clk) ==
    IF a = "memory" THEN repoFindAll(st, clk) ELSE mongoFindAll(st, clk)

updateVia(a, st, t, clk) ==
    IF a = "memory" THEN repoUpdate(st, t, clk) ELSE mongoUpdate(st, t, clk)

deleteVia(a, st, id) ==
    IF a = "memory" THEN repoDelete(st, id) ELSE mongoDelete(st, id)

----------------------------------------------------------------------------
(* Use cases.  Each yields [ok, class, msg, ret, calls, todos]: the        *)
(* outcome, the repository methods called in order, and the map after.     *)

Outcome(ok, class, msg, ret, calls, m) ==
    [ok |-> ok, class |-> class, msg |-> msg, ret |-> ret, calls |-> calls, todos |-> m]

Thrown(e, calls, m) == Outcome(FALSE, e.class, e.msg, Undef, calls, m)

Returned(ret, calls, m) == Outcome(TRUE, "", "", ret, calls, m)

TodoNotFoundException(id) == Err("TodoNotFoundException", NotFoundMsg(id))

(* Faulty variant of CreateTodo.execute: a draft is saved before the       *)
(* title is validated.                                                     *)
CreateTodoSaveFirst(m, command, c, r) ==
    LET built == TodoConstructor([id |-> Undef, title |-> command.title,
                                  description |-> command.description,
                                  status |-> Undef, createdAt |-> Undef,
                                  updatedAt |-> Undef], c[1], r, c[2], c[3])
        draft == [id |-> generateId(c[1], r), title |-> <<>>,
                  description |-> "", status |-> PENDING,
                  createdAt |-> c[2], updatedAt |-> c[3]]
    IN  IF ~built.ok
        THEN Thrown(built, <<"save">>, mapSet(m, draft.id, toObject(draft)))
        ELSE LET saved == repoSave(m, built.todo, c[3]) IN
             Returned(Some(toObject(saved.todo)), <<"save">>, saved.todos)

(* CreateTodo.execute(command) *)
CreateTodo(m, command, c, r) ==
    LET built == TodoConstructor([id |-> Undef, title |-> command.title,
                                  description |-> command.description,
                                  status |-> Undef, createdAt |-> Undef,
                                  updatedAt |-> Undef], c[1], r, c[2], c[3])
    IN  IF ~built.ok
        THEN Thrown(built, <<>>, m)
        ELSE LET saved == repoSave(m, built.todo, c[3]) IN
             IF ~saved.ok THEN Thrown(saved, <<"save">>, saved.todos)
             ELSE Returned(Some(toObject(saved.todo)), <<"save">>, saved.todos)

(* GetTodo.execute(id) *)
GetTodo(m, id, clk) ==
    LET found == repoFindById(m, id, clk) IN
    IF ~IsDefined(found) THEN Thrown(TodoNotFoundException(id), <<"findById">>, m)
    ELSE IF ~Val(found).ok THEN Thrown(Val(found), <<"findById">>, m)
    ELSE Returned(Some(toObject(Val(found).todo)), <<"findById">>, m)

(* ListTodos.execute() *)
ListTodos(m, clk) ==
    LET all == repoFindAll(m, clk) IN
    IF \E i \in 1..Len(all) : ~all[i].ok
    THEN Thrown(all[CHOOSE i \in 1..Len(all) : ~all[i].ok], <<"findAll">>, m)
    ELSE Returned(Some([i \in 1..Len(all) |-> toObject(all[i].todo)]), <<"findAll">>, m)

(* Faulty variant of UpdateTodo.execute: the description is applied and    *)
(* persisted before the title is validated.                                *)
UpdateTodoDescriptionFirst(m, command, clk) ==
    LET found == repoFindById(m, command.id, clk) IN
    IF ~IsDefined(found) THEN Thrown(TodoNotFoundException(command.id), <<"findById">>, m)
    ELSE IF ~Val(found).ok THEN Thrown(Val(found), <<"findById">>, m)
    ELSE
    LET t0 == Val(found).todo
        r1 == IF IsDefined(command.description)
              THEN updateDescription(t0, Val(command.description), clk)
              ELSE [ok |-> TRUE, todo |-> t0]
        upd1 == repoUpdate(m, r1.todo, clk)
        r2 == IF IsDefined(command.title) /\ Val(command.title) # <<>>
              THEN updateTitle(r1.todo, Val(command.title), clk)
              ELSE r1
    IN  IF ~r2.ok THEN Thrown(r2, <<"findById", "update">>, upd1.todos)
        ELSE
        LET upd == repoUpdate(upd1.todos, r2.todo, clk)
        IN  IF ~upd.ok THEN Thrown(upd, <<"findById", "update", "update">>, upd.todos)
            ELSE Returned(Some(toObject(upd.todo)),
                          <<"findById", "update", "update">>, upd.todos)

(* Faulty variant of UpdateTodo.execute: the description is tested for     *)
(* truthiness like the title, so an empty description is skipped.          *)
UpdateTodoTruthyDescription(m, command, clk) ==
    LET found == repoFindById(m, command.id, clk) IN
    IF ~IsDefined(found) THEN Thrown(TodoNotFoundException(command.id), <<"findById">>, m)
    ELSE IF ~Val(found).ok THEN Thrown(Val(found), <<"findById">>, m)
    ELSE
    LET t0 == Val(found).todo
        r1 == IF IsDefined(command.title) /\ Val(command.title) # <<>>
              THEN updateTitle(t0, Val(command.title), clk)
              ELSE [ok |-> TRUE, todo |-> t0]
    IN  IF ~r1.ok THEN Thrown(r1, <<"findById">>, m)
        ELSE
        LET r2 == IF IsDefined(command.description) /\ Val(command.description) # ""
                  THEN updateDescription(r1.todo, Val(command.description), clk)
                  ELSE r1
            upd == repoUpdate(m, r2.todo, clk)
        IN  IF ~upd.ok THEN Thrown(upd, <<"findById", "update">>, upd.todos)
            ELSE Returned(Some(toObject(upd.todo)), <<"findById", "update">>, upd.todos)

(* UpdateTodo.execute(command): `if (command.title)` skips undefined and   *)
(* the empty string; `command.description !== undefined` skips undefined.  *)
UpdateTodo(m, command, clk) ==
    LET found == repoFindById(m, command.id, clk) IN
    IF ~IsDefined(found) THEN Thrown(TodoNotFoundException(command.id), <<"findById">>, m)
    ELSE IF ~Val(found).ok THEN Thrown(Val(found), <<"findById">>, m)
    ELSE
    LET t0 == Val(found).todo
        r1 == IF IsDefined(command.title) /\ Val(command.title) # <<>>
              THEN updateTitle(t0, Val(command.title), clk)
              ELSE [ok |-> TRUE, todo |-> t0]
    IN  IF ~r1.ok THEN Thrown(r1, <<"findById">>, m)
        ELSE
        LET r2 == IF IsDefined(command.description)
                  THEN updateDescription(r1.todo, Val(command.description), clk)
                  ELSE r1
            upd == repoUpdate(m, r2.todo, clk)
        IN  IF ~upd.ok THEN Thrown(upd, <<"findById", "update">>, upd.todos)
            ELSE Returned(Some(toObject(upd.todo)), <<"findById", "update">>, upd.todos)

(* Faulty variant of CompleteTodo.execute: the completed Todo is returned  *)
(* without being handed to the repository.                                 *)
CompleteTodoNoPersist(m, id, clk) ==
    LET found == repoFindById(m, id, clk) IN
    IF ~IsDefined(found) THEN Thrown(TodoNotFoundException(id), <<"findById">>, m)
    ELSE IF ~Val(found).ok THEN Thrown(Val(found), <<"findById">>, m)
    ELSE
    LET done == complete(Val(found).todo, clk) IN
    IF ~done.ok THEN Thrown(done, <<"findById">>, m)
    ELSE Returned(Some(toObject(done.todo)), <<"findById">>, m)

(* CompleteTodo.execute(id) *)
CompleteTodo(m, id, clk) ==
    LET found == repoFindById(m, id, clk) IN
    IF ~IsDefined(found) THEN Thrown(TodoNotFoundException(id), <<"findById">>, m)
    ELSE IF ~Val(found).ok THEN Thrown(Val(found), <<"findById">>, m)
    ELSE
    LET done == complete(Val(found).todo, clk) IN
    IF ~done.ok THEN Thrown(done, <<"findById">>, m)
    ELSE LET upd == repoUpdate(m, done.todo, clk) IN
         IF ~upd.ok THEN Thrown(upd, <<"findById", "update">>, upd.todos)
         ELSE Returned(Some(toObject(upd.todo)), <<"findById", "update">>, upd.todos)

(* Faulty variant of DeleteTodo.execute: no existence check before the     *)
(* repository's delete.                                                    *)
DeleteTodoUnchecked(m, id, clk) ==
    Returned(Undef, <<"delete">>, repoDelete(m, id).todos)

(* DeleteTodo.execute(id) *)
DeleteTodo(m, id, clk) ==
    LET found == repoFindById(m, id, clk) IN
    IF ~IsDefined(found) THEN Thrown(TodoNotFoundException(id), <<"findById">>, m)
    ELSE IF ~Val(found).ok THEN Thrown(Val(found), <<"findById">>, m)
    ELSE Returned(Undef, <<"findById", "delete">>, repoDelete(m, id).todos)

----------------------------------------------------------------------------
(* The use cases over the port.  Update, Complete and Delete await         *)
(* findById before they go on: what follows the await is a step of its     *)
(* own, taken with the Todo the read returned.                             *)

(* CreateTodo.execute(command) *)
CreateTodoVia(a, st, command, c, r) ==
    LET built == TodoConstructor([id |-> Undef, title |-> command.title,
                                  description |-> command.description,
                                  status |-> Undef, createdAt |-> Undef,
                                  updatedAt |-> Undef], c[1], r, c[2], c[3])
    IN  IF ~built.ok
        THEN Thrown(built, <<>>, st)
        ELSE LET saved == saveVia(a, st, built.todo, c[3]) IN
             IF ~saved.ok THEN Thrown(saved, <<"save">>, saved.todos)
             ELSE Returned(Some(toObject(saved.todo)), <<"save">>, saved.todos)

(* GetTodo.execute(id) *)
GetTodoVia(a, st, id, clk) ==
    LET found == findByIdVia(a, st, id, clk) IN
    IF ~IsDefined(found) THEN Thrown(TodoNotFoundException(id), <<"findById">>, st)
    ELSE IF ~Val(found).ok THEN Thrown(Val(found), <<"findById">>, st)
    ELSE Returned(Some(toObject(Val(found).todo)), <<"findById">>, st)

(* ListTodos.execute() *)
ListTodosVia(a, st, clk) ==
    LET all == findAllVia(a, st, clk) IN
    IF \E i \in 1..Len(all) : ~all[i].ok
    THEN Thrown(all[CHOOSE i \in 1..Len(all) : ~all[i].ok], <<"findAll">>, st)
    ELSE Returned(Some([i \in 1..Len(all) |-> toObject(all[i].todo)]), <<"findAll">>, st)

(* the first step of Update, Complete and Delete: findById and the null    *)
(* check.  Yields the failure, or [ok, todo].                              *)
FindOrThrow(a, st, id, clk) ==
    LET found == findByIdVia(a, st, id, clk) IN
    IF ~IsDefined(found) THEN Thrown(TodoNotFoundException(id), <<"findById">>, st)
    ELSE IF ~Val(found).ok THEN Thrown(Val(found), <<"findById">>, st)
    ELSE [ok |-> TRUE, todo |-> Val(found).todo]

(* Faulty variant of the second step of Update: the status is written     *)
(* from the record stored now, not from the Todo that was read.          *)
UpdateAfterFindKeepsStoredStatus(a, st, command, t0, clk) ==
    LET r1 == IF IsDefined(command.title) /\ Val(command.title) # <<>>
              THEN updateTitle(t0, Val(command.title), clk)
              ELSE [ok |-> TRUE, todo |-> t0]
    IN  IF ~r1.ok THEN Thrown(r1, <<"findById">>, st)
        ELSE
        LET r2 == IF IsDefined(command.description)
                  THEN updateDescription(r1.todo, Val(command.description), clk)
                  ELSE r1
            cur == IF t0.id \in storedIds(a, st)
                   THEN Val(storedTodo(a, st, t0.id).status) ELSE r2.todo.status
            upd == updateVia(a, st, [r2.todo EXCEPT !.status = cur], clk)
        IN  IF ~upd.ok THEN Thrown(upd, <<"findById", "update">>, upd.todos)
            ELSE Returned(Some(toObject(upd.todo)), <<"findById", "update">>, upd.todos)

(* UpdateTodo.execute(command) after `await findById` returned t0 *)
UpdateAfterFind(a, st, command, t0, clk) ==
    LET r1 == IF IsDefined(command.title) /\ Val(command.title) # <<>>
              THEN updateTitle(t0, Val(command.title), clk)
              ELSE [ok |-> TRUE, todo |-> t0]
    IN  IF ~r1.ok THEN Thrown(r1, <<"findById">>, st)
        ELSE
        LET r2 == IF IsDefined(command.description)
                  THEN updateDescription(r1.todo, Val(command.description), clk)
                  ELSE r1
            upd == updateVia(a, st, r2.todo, clk)
        IN  IF ~upd.ok THEN Thrown(upd, <<"findById", "update">>, upd.todos)
            ELSE Returned(Some(toObject(upd.todo)), <<"findById", "update">>, upd.todos)

(* CompleteTodo.execute(id) after `await findById` returned t0 *)
CompleteAfterFind(a, st, t0, clk) ==
    LET done == complete(t0, clk) IN
    IF ~done.ok THEN Thrown(done, <<"findById">>, st)
    ELSE LET upd == updateVia(a, st, done.todo, clk) IN
         IF ~upd.ok THEN Thrown(upd, <<"findById", "update">>, upd.todos)
         ELSE Returned(Some(toObject(upd.todo)), <<"findById", "update">>, upd.todos)

(* DeleteTodo.execute(id) after `await findById` returned a Todo *)
DeleteAfterFind(a, st, id) ==
    Returned(Undef, <<"findById", "delete">>, deleteVia(a, st, id).todos)

(* UpdateTodo.execute(command), CompleteTodo.execute(id) and               *)
(* DeleteTodo.execute(id) when nothing runs between their steps            *)
UpdateTodoVia(a, st, command, clk) ==
    LET found == FindOrThrow(a, st, command.id, clk) IN
    IF ~found.ok THEN found ELSE UpdateAfterFind(a, st, command, found.todo, clk)

CompleteTodoVia(a, st, id, clk) ==
    LET found == FindOrThrow(a, st, id, clk) IN
    IF ~found.ok THEN found ELSE CompleteAfterFind(a, st, found.todo, clk)

DeleteTodoVia(a, st, id, clk) ==
    LET found == FindOrThrow(a, st, id, clk) IN
    IF ~found.ok THEN found ELSE DeleteAfterFind(a, st, id)

----------------------------------------------------------------------------
(* Inputs *)

Pads == UNION {[1..k -> Whitespace] : k \in 0..MaxPad}

(* Title bodies: no leading or trailing whitespace; around both limits *)
Bodies ==
    { <<>>, <<"a">>, <<"a", " ", "b">>,
      Rep("a", MaxTitleLength - 1), Rep("a", MaxTitleLength),
      Rep("a", MaxTitleLength + 1), Rep("a", MaxTitleLength + 2),
      Rep("a", MaxTitleLength - 2) \o <<" ", "b">>,
      Rep("a", MaxTitleLength - 1) \o <<"\t", "b">> }

TitleInputs == {l \o b \o r : l \in Pads, b \in Bodies, r \in Pads}

(* Titles handed to the entity and the use cases *)
LongTitle == <<" ">> \o Rep("a", MaxTitleLength + 1)

Titles == { <<>>, <<" ">>, <<"a">>, <<" ", "b", "\t">>, LongTitle }

(* Titles of Create and of Update commands *)
CreateTitles == { <<>>, <<" ">>, <<"\t", "a", " ">>, LongTitle }

UpdateTitles == { <<>>, <<" ">>, <<" ", "b", "\t">>, LongTitle }

Descriptions == {"", "d1"}

Times == 0..MaxClock
Rands == 1..MaxRand

(* Successive clock readings within one synchronous call: the clock may    *)
(* advance between two reads, never go back.                               *)
ClockReads == {c \in Times \X Times \X Times :
                  c[1] = now /\ c[1] <= c[2] /\ c[2] <= c[3]}

(* TodoProps as the TypeScript interface allows them *)
PropsInputs ==
    [id          : {Undef, Some(""), Some("t1")},
     title       : {Some(x) : x \in Titles},
     description : {Undef} \cup {Some(d) : d \in Descriptions},
     status      : {Undef} \cup {Some(st) : st \in TodoStatusEnum},
     createdAt   : {Undef} \cup {Some(t) : t \in Times},
     updatedAt   : {Undef} \cup {Some(t) : t \in Times}]

(* TodoDocument as its interface allows them: status is any string *)
Documents ==
    [id          : {"t1"},
     title       : Titles,
     description : Descriptions,
     status      : TodoStatusEnum \cup {"ARCHIVED"},
     createdAt   : Times,
     updatedAt   : Times]

----------------------------------------------------------------------------
(* Initial values shared by the specifications *)

NoCall ==
    [op |-> "none", ok |-> TRUE, class |-> "", msg |-> "", before |-> Undef,
     at |-> 0, arg |-> Undef, prevTrans |-> "none", afterComplete |-> FALSE,
     prevAt |-> 0, dflt |-> FALSE]

NoResult ==
    [op |-> "none", ok |-> TRUE, class |-> "", msg |-> "", ret |-> Undef,
     calls |-> <<>>, cmd |-> Undef, before |-> <<>>, at |-> 0,
     prev |-> [op |-> "none", id |-> ""], born |-> {}]

(* nothing beyond the core exists *)
ExtUnused ==
    /\ collection = <<>> /\ mresult = <<>> /\ adapter = <<>> /\ procs = <<>>
    /\ env = <<>> /\ config = <<>> /\ container = <<>> /\ mongoClient = <<>>
    /\ callers = <<>> /\ server = <<>> /\ heap = <<>> /\ held = <<>>

(* The clock advances *)
Tick ==
    /\ now < MaxClock
    /\ now' = now + 1
    /\ UNCHANGED <<titleIn, titleOut, todo, last, todos, result, ext>>

----------------------------------------------------------------------------
(* Specification of the TodoTitle value object: a string is handed to the  *)
(* constructor.                                                            *)

NewTodoTitle ==
    /\ ~IsDefined(titleOut)
    /\ titleOut' = Some(TodoTitle(Some(titleIn)))
    /\ UNCHANGED <<titleIn, now, todo, last, todos, result, ext>>

InitTitle ==
    /\ titleIn \in TitleInputs
    /\ titleOut = Undef
    /\ now = 0
    /\ todo = Undef
    /\ last = NoCall
    /\ todos = <<>>
    /\ result = NoResult
    /\ ExtUnused

NextTitle == NewTodoTitle

SpecTitle == InitTitle /\ [][NextTitle]_vars

----------------------------------------------------------------------------
(* Specification of the application: the six use cases are executed one    *)
(* after another against the in-memory repository, while the clock runs.   *)

(* CreateTodoCommand / UpdateTodoCommand as the controller passes them     *)
(* from the request body: an absent property is undefined.                 *)
CreateCommands ==
    [title       : {Undef} \cup {Some(x) : x \in CreateTitles},
     description : {Undef} \cup {Some(d) : d \in Descriptions}]

Ids == mapKeys(todos) \cup {"nonexistent-id"}

UpdateCommands ==
    [id          : Ids,
     title       : {Undef} \cup {Some(x) : x \in UpdateTitles},
     description : {Undef} \cup {Some(d) : d \in Descriptions}]

(* the id a recorded execution was about: the one Create returned, the   *)
(* one the other commands named                                            *)
TargetOf(res) ==
    IF res.op = "create" THEN IF res.ok THEN Val(Val(res.ret).id) ELSE ""
    ELSE IF res.op = "update" THEN Val(res.cmd).id
    ELSE IF res.op \in {"get", "complete", "delete"} THEN Val(res.cmd)
    ELSE ""

(* what the history keeps of the execution before this one: whether it was *)
(* a successful Create or Complete, and of which id                        *)
Digest(res) ==
    IF res.ok /\ res.op \in {"create", "complete"}
    THEN [op |-> res.op, id |-> TargetOf(res)]
    ELSE [op |-> "other", id |-> ""]

(* the <<id, createdAt>> pairs Create returned, less the ids deleted since *)
Born(op, cmd, o) ==
    IF op = "create" /\ o.ok
    THEN {b \in result.born : b[1] # Val(Val(o.ret).id)}
             \cup {<<Val(Val(o.ret).id), Val(Val(o.ret).createdAt)>>}
    ELSE IF op = "delete" /\ o.ok
    THEN {b \in result.born : b[1] # Val(cmd)}
    ELSE result.born

(* the record of a use-case execution with outcome o *)
Executed(op, cmd, o) ==
    [op |-> op, ok |-> o.ok, class |-> o.class, msg |-> o.msg, ret |-> o.ret,
     calls |-> o.calls, cmd |-> cmd, before |-> todos, at |-> now,
     prev |-> Digest(result), born |-> Born(op, cmd, o)]

AppFrame == UNCHANGED <<titleIn, titleOut, todo, last, ext>>

Create ==
    /\ \E command \in CreateCommands, c \in ClockReads, r \in Rands :
        \E o \in {CreateTodo(todos, command, c, r)} :
        /\ Len(o.todos) <= MaxTodos
        /\ todos' = o.todos
        /\ result' = Executed("create", Some(command), o)
        /\ now' = c[3]
    /\ AppFrame

Get ==
    /\ \E id \in Ids :
        \E o \in {GetTodo(todos, id, now)} :
        /\ todos' = o.todos
        /\ result' = Executed("get", Some(id), o)
    /\ UNCHANGED now
    /\ AppFrame

List ==
    /\ \E o \in {ListTodos(todos, now)} :
        /\ todos' = o.todos
        /\ result' = Executed("list", Undef, o)
    /\ UNCHANGED now
    /\ AppFrame

Update ==
    /\ \E command \in UpdateCommands :
        \E o \in {UpdateTodo(todos, command, now)} :
        /\ todos' = o.todos
        /\ result' = Executed("update", Some(command), o)
    /\ UNCHANGED now
    /\ AppFrame

Complete ==
    /\ \E id \in Ids :
        \E o \in {CompleteTodo(todos, id, now)} :
        /\ todos' = o.todos
        /\ result' = Executed("complete", Some(id), o)
    /\ UNCHANGED now
    /\ AppFrame

Delete ==
    /\ \E id \in Ids :
        \E o \in {DeleteTodo(todos, id, now)} :
        /\ todos' = o.todos
        /\ result' = Executed("delete", Some(id), o)
    /\ UNCHANGED now
    /\ AppFrame

Init ==
    /\ titleIn = <<>>
    /\ titleOut = Undef
    /\ now = 0
    /\ todo = Undef
    /\ last = NoCall
    /\ todos = <<>>
    /\ result = NoResult
    /\ ExtUnused

Next ==
    \/ Tick
    \/ Create
    \/ Get
    \/ List
    \/ Update
    \/ Complete
    \/ Delete

Spec == Init /\ [][Next]_vars

----------------------------------------------------------------------------
(* C1: for every string s, constructing a TodoTitle succeeds exactly when  *)
(* 1 <= len(trim(s)) <= 200, and then getValue() returns trim(s); in every *)
(* other case construction throws and no TodoTitle value exists.           *)
C1_TitleConstruction ==
    IsDefined(titleOut) =>
        LET n == Len(trim(titleIn))
            out == Val(titleOut)
        IN  /\ out.ok <=> (1 <= n /\ n <= 200)
            /\ out.ok => out.value = trim(titleIn)
            /\ ~out.ok => /\ "value" \notin DOMAIN out
                          /\ out.class = "Error"
                          /\ out.msg = (IF n = 0 THEN EmptyTitleMsg ELSE LongTitleMsg)

(* a padded string whose trimmed length is exactly 200 was accepted *)
C1_Witness ==
    /\ IsDefined(titleOut)
    /\ Val(titleOut).ok
    /\ Len(trim(titleIn)) = 200
    /\ Len(titleIn) > 200

----------------------------------------------------------------------------
(* Specification of the Todo entity: one reference `todo` on which the     *)
(* constructor and the public methods are called in any order.             *)

CurTrans(l) == IF l.ok /\ l.op \in {"complete", "reopen"} THEN l.op ELSE l.prevTrans

(* the record of a method call on the instance, r its outcome *)
Call(op, arg, r) ==
    [op |-> op, ok |-> r.ok,
     class |-> IF r.ok THEN "" ELSE r.class,
     msg |-> IF r.ok THEN "" ELSE r.msg,
     before |-> todo, at |-> now, arg |-> arg,
     prevTrans |-> CurTrans(last),
     afterComplete |-> (last.op = "complete" /\ last.ok),
     prevAt |-> last.at, dflt |-> last.dflt]

(* the record of a construction from props *)
Built(op, props, r) ==
    [op |-> op, ok |-> r.ok,
     class |-> IF r.ok THEN "" ELSE r.class,
     msg |-> IF r.ok THEN "" ELSE r.msg,
     before |-> Undef, at |-> now, arg |-> Undef,
     prevTrans |-> "none", afterComplete |-> FALSE,
     prevAt |-> last.at, dflt |-> ~IsDefined(props.status)]

EntityFrame == UNCHANGED <<titleIn, titleOut, todos, result, ext>>

Construct ==
    /\ ~IsDefined(todo)
    /\ \E props \in PropsInputs, c \in ClockReads, r \in Rands :
        \E res \in {TodoConstructor(props, c[1], r, c[2], c[3])} :
        /\ todo' = IF res.ok THEN Some(res.todo) ELSE Undef
        /\ last' = Built("construct", props, res)
        /\ now' = c[3]
        /\ EntityFrame

ToDomain ==
    /\ ~IsDefined(todo)
    /\ \E document \in Documents, c \in ClockReads, r \in Rands :
        \E res \in {toDomain(document, c[1], r, c[2], c[3])} :
        /\ todo' = IF res.ok THEN Some(res.todo) ELSE Undef
        /\ last' = Built("toDomain", toObject(document), res)
        /\ now' = c[3]
        /\ EntityFrame

(* new Todo(t.toObject()) *)
Reconstruct ==
    /\ IsDefined(todo)
    /\ \E c \in ClockReads, r \in Rands :
        \E res \in {TodoConstructor(toObject(Val(todo)), c[1], r, c[2], c[3])} :
        /\ todo' = IF res.ok THEN Some(res.todo) ELSE Undef
        /\ last' = [Built("reconstruct", toObject(Val(todo)), res)
                        EXCEPT !.before = todo]
        /\ now' = c[3]
        /\ EntityFrame

UpdateTitle ==
    /\ IsDefined(todo)
    /\ \E title \in Titles :
        \E res \in {updateTitle(Val(todo), title, now)} :
        /\ todo' = Some(res.todo)
        /\ last' = Call("updateTitle", Some(title), res)
    /\ UNCHANGED now
    /\ EntityFrame

UpdateDescription ==
    /\ IsDefined(todo)
    /\ \E description \in Descriptions :
        \E res \in {updateDescription(Val(todo), description, now)} :
        /\ todo' = Some(res.todo)
        /\ last' = Call("updateDescription", Some(description), res)
    /\ UNCHANGED now
    /\ EntityFrame

CompleteCall ==
    /\ IsDefined(todo)
    /\ \E res \in {complete(Val(todo), now)} :
        /\ todo' = Some(res.todo)
        /\ last' = Call("complete", Undef, res)
    /\ UNCHANGED now
    /\ EntityFrame

ReopenCall ==
    /\ IsDefined(todo)
    /\ \E res \in {reopen(Val(todo), now)} :
        /\ todo' = Some(res.todo)
        /\ last' = Call("reopen", Undef, res)
    /\ UNCHANGED now
    /\ EntityFrame

(* toObject and the getters read the fields *)
ToObjectCall ==
    /\ IsDefined(todo)
    /\ last' = Call("toObject", Some(toObject(Val(todo))), [ok |-> TRUE])
    /\ UNCHANGED <<todo, now>>
    /\ EntityFrame

GetterCall ==
    /\ IsDefined(todo)
    /\ last' = Call("getter", Undef, [ok |-> TRUE])
    /\ UNCHANGED <<todo, now>>
    /\ EntityFrame

InitEntity ==
    /\ titleIn = <<>>
    /\ titleOut = Undef
    /\ now = 0
    /\ todo = Undef
    /\ last = NoCall
    /\ todos = <<>>
    /\ result = NoResult
    /\ ExtUnused

NextEntity ==
    \/ Tick
    \/ Construct
    \/ ToDomain
    \/ Reconstruct
    \/ UpdateTitle
    \/ UpdateDescription
    \/ CompleteCall
    \/ ReopenCall
    \/ ToObjectCall
    \/ GetterCall

SpecEntity == InitEntity /\ [][NextEntity]_vars

----------------------------------------------------------------------------
(* Claims about the entity, checked under SpecEntity.  `last` is the call  *)
(* just made, last.before the instance as it was when the call was made.   *)

(* C2: complete() immediately after a successful complete() throws         *)
(* "already completed" and leaves the instance unchanged: status is still  *)
(* COMPLETED and updatedAt is the value the first call set.                *)
C2_SecondCompleteFails ==
    (last.op = "complete" /\ last.afterComplete) =>
        /\ ~last.ok
        /\ last.msg = AlreadyCompletedMsg
        /\ todo = last.before
        /\ Val(todo).status = COMPLETED
        /\ Val(todo).updatedAt = last.prevAt

(* the second complete() was made after the clock had advanced *)
C2_Witness ==
    /\ last.op = "complete"
    /\ last.afterComplete
    /\ ~last.ok
    /\ last.at > last.prevAt

(* C3: reopen() on a PENDING Todo throws "already pending" and leaves      *)
(* status, title, description and updatedAt unchanged.                     *)
C3_ReopenPendingFails ==
    (last.op = "reopen" /\ Val(last.before).status = PENDING) =>
        /\ ~last.ok
        /\ last.msg = AlreadyPendingMsg
        /\ Val(todo).status = PENDING
        /\ Val(todo).title = Val(last.before).title
        /\ Val(todo).description = Val(last.before).description
        /\ Val(todo).updatedAt = Val(last.before).updatedAt

(* reopen() on a Todo created with the default status and never completed, *)
(* called after the clock had advanced                                     *)
C3_Witness ==
    /\ last.op = "reopen"
    /\ ~last.ok
    /\ last.dflt
    /\ last.prevTrans = "none"
    /\ last.at > Val(todo).updatedAt

(* C4: complete() on PENDING gives COMPLETED, reopen() on COMPLETED gives  *)
(* PENDING, each refreshing updatedAt; updateTitle, updateDescription,     *)
(* toObject and the getters keep status; successful complete() and         *)
(* reopen() calls alternate, the first one on a Todo created with the      *)
(* default status being complete().                                        *)
C4_StatusMachine ==
    (IsDefined(todo) /\ IsDefined(last.before)) =>
        LET b == Val(last.before)
            t == Val(todo)
        IN  /\ (last.op = "complete" /\ b.status = PENDING) =>
                   (last.ok /\ t.status = COMPLETED /\ t.updatedAt = last.at)
            /\ (last.op = "reopen" /\ b.status = COMPLETED) =>
                   (last.ok /\ t.status = PENDING /\ t.updatedAt = last.at)
            /\ (last.op \in {"updateTitle", "updateDescription", "toObject", "getter"}) =>
                   t.status = b.status
            /\ (last.ok /\ last.op \in {"complete", "reopen"}) =>
                   /\ last.prevTrans # last.op
                   /\ (last.prevTrans = "none" /\ last.dflt) => last.op = "complete"

(* a successful complete() that followed a successful reopen(), at a later *)
(* clock reading than the instance's previous updatedAt                    *)
C4_Witness ==
    /\ last.op = "complete"
    /\ last.ok
    /\ last.prevTrans = "reopen"
    /\ last.dflt
    /\ Val(todo).updatedAt > Val(last.before).updatedAt

(* C5: updateTitle(x) with an invalid x throws and leaves every field as   *)
(* it was; with a valid x the title becomes trim(x), updatedAt is          *)
(* refreshed and nothing else changes.                                     *)
C5_UpdateTitleAtomic ==
    (last.op = "updateTitle") =>
        LET x == Val(last.arg)
            b == Val(last.before)
        IN  IF 1 <= Len(trim(x)) /\ Len(trim(x)) <= 200
            THEN /\ last.ok
                 /\ Val(todo) = [b EXCEPT !.title = trim(x), !.updatedAt = last.at]
            ELSE /\ ~last.ok
                 /\ Val(todo) = b

(* a rejected updateTitle made at a later clock reading than updatedAt *)
C5_Witness ==
    /\ last.op = "updateTitle"
    /\ ~last.ok
    /\ last.at > Val(todo).updatedAt
    /\ Len(trim(Val(last.arg))) > 200

(* C6: new Todo(t.toObject()) succeeds and serializes to the same id,      *)
(* title, description, status, createdAt and updatedAt as t.               *)
C6_RoundTrip ==
    (last.op = "reconstruct") =>
        /\ last.ok
        /\ IsDefined(todo)
        /\ toObject(Val(todo)) = toObject(Val(last.before))

(* a round trip made when the clock is past both timestamps *)
C6_Witness ==
    /\ last.op = "reconstruct"
    /\ last.ok
    /\ Val(todo).createdAt < last.at
    /\ Val(todo).updatedAt < last.at
    /\ Val(todo).description = ""
    /\ Val(todo).status = COMPLETED

(* C7: every live Todo instance has status PENDING or COMPLETED *)
C7_StatusValid ==
    IsDefined(todo) => Val(todo).status \in TodoStatusEnum

(* C8: updatedAt >= createdAt for every live Todo instance *)
C8_UpdatedNotBeforeCreated ==
    IsDefined(todo) => Val(todo).updatedAt >= Val(todo).createdAt

----------------------------------------------------------------------------
(* Claims about the use cases, checked under Spec.  `result` is the        *)
(* execution just made: its command, its outcome, the repository methods   *)
(* it called, and result.before the repository's map when it started.      *)

ValidTitle(o) == IsDefined(o) /\ 1 <= Len(trim(Val(o))) /\ Len(trim(Val(o))) <= 200

(* C9: Create with a valid title and no description returns and persists a *)
(* Todo with status PENDING, description "", a non-empty identifier and    *)
(* createdAt equal to updatedAt.                                           *)
C9_CreateDefaults ==
    (/\ result.op = "create"
     /\ ValidTitle(Val(result.cmd).title)
     /\ ~IsDefined(Val(result.cmd).description)) =>
        /\ result.ok
        /\ LET ret == Val(result.ret) IN
            /\ Val(ret.status) = PENDING
            /\ Val(ret.description) = ""
            /\ Val(ret.id) # ""
            /\ Val(ret.createdAt) = Val(ret.updatedAt)
            /\ mapHas(todos, Val(ret.id))
            /\ mapGet(todos, Val(ret.id)) = ret

(* C10: Create with an invalid title throws the title's validation error   *)
(* without calling the repository, and the stored Todos are the same       *)
(* before and after.                                                       *)
C10_InvalidCreatePersistsNothing ==
    (result.op = "create" /\ ~ValidTitle(Val(result.cmd).title)) =>
        /\ ~result.ok
        /\ result.class = "Error"
        /\ result.msg \in {EmptyTitleMsg, LongTitleMsg}
        /\ result.calls = <<>>
        /\ todos = result.before

(* a Create with an over-long title was rejected while a Todo was stored *)
C10_Witness ==
    /\ result.op = "create"
    /\ ~result.ok
    /\ IsDefined(Val(result.cmd).title)
    /\ Len(trim(Val(Val(result.cmd).title))) > 200
    /\ Len(todos) > 0

----------------------------------------------------------------------------
(* Claims about sequences of use-case executions                           *)

(* the execution just recorded came right after a successful op on its id  *)
RightAfter(op) == result.prev.op = op /\ result.prev.id = TargetOf(result)

(* C11 as stated: Create followed by Complete(id) on the created Todo      *)
(* succeeds, the returned Todo and the stored record are COMPLETED, and    *)
(* the result's updatedAt is strictly greater than its createdAt.          *)
C11_CompleteAfterCreateStrict ==
    (result.op = "complete" /\ RightAfter("create")) =>
        /\ result.ok
        /\ Val(Val(result.ret).status) = COMPLETED
        /\ Val(mapGet(todos, Val(result.cmd)).status) = COMPLETED
        /\ Val(Val(result.ret).updatedAt) > Val(Val(result.ret).createdAt)

(* C11 amended: Create followed by Complete(id) on the created Todo        *)
(* succeeds, the returned Todo and the stored record are COMPLETED, and    *)
(* the result's updatedAt is the completion time, which is never before    *)
(* createdAt (equal when the clock has not advanced since creation).       *)
C11_CompleteAfterCreate ==
    (result.op = "complete" /\ RightAfter("create")) =>
        /\ result.ok
        /\ Val(Val(result.ret).status) = COMPLETED
        /\ mapHas(todos, Val(result.cmd))
        /\ mapGet(todos, Val(result.cmd)) = Val(result.ret)
        /\ Val(Val(result.ret).updatedAt) = result.at
        /\ Val(Val(result.ret).updatedAt) >= Val(Val(result.ret).createdAt)

C11_Witness ==
    /\ result.op = "complete" /\ RightAfter("create") /\ result.ok
    /\ Val(mapGet(todos, Val(result.cmd)).status) = COMPLETED
    /\ Val(Val(result.ret).updatedAt) > Val(Val(result.ret).createdAt)

(* C12: when Complete(id) is executed twice in sequence, the second call   *)
(* fails with the "already completed" error, performs no repository write, *)
(* and the stored record is unchanged: still COMPLETED, with the updatedAt *)
(* the first call gave it.                                                 *)
C12_SecondCompleteRejected ==
    (result.op = "complete" /\ RightAfter("complete")) =>
        /\ ~result.ok
        /\ result.class = "Error"
        /\ result.msg = AlreadyCompletedMsg
        /\ result.calls = <<"findById">>
        /\ todos = result.before
        /\ Val(mapGet(todos, Val(result.cmd)).status) = COMPLETED

C12_Witness ==
    /\ result.op = "complete" /\ RightAfter("complete") /\ ~result.ok
    /\ Val(mapGet(todos, Val(result.cmd)).status) = COMPLETED
    /\ result.at > Val(mapGet(todos, Val(result.cmd)).updatedAt)

(* C13: for every id with no stored Todo, Get, Update, Complete and Delete *)
(* each fail with the distinct NotFound error kind, perform no repository  *)
(* write or delete, and leave the store unchanged.                         *)
C13_AbsentIdNotFound ==
    (/\ result.op \in {"get", "update", "complete", "delete"}
     /\ ~mapHas(result.before, TargetOf(result))) =>
        /\ ~result.ok
        /\ result.class = "TodoNotFoundException"
        /\ result.msg = NotFoundMsg(TargetOf(result))
        /\ result.calls = <<"findById">>
        /\ todos = result.before

C13_Witness ==
    /\ result.op = "delete"
    /\ ~mapHas(result.before, Val(result.cmd))
    /\ result.class = "TodoNotFoundException"
    /\ Len(todos) > 0

(* C14: Update({id, title}) on an existing Todo fails with the validation  *)
(* error whenever a title is provided and is invalid (the empty string, a  *)
(* whitespace-only string, or longer than 200 after trimming); it never    *)
(* reports success for such a command.                                     *)
C14_InvalidTitleRejected ==
    (/\ result.op = "update"
     /\ mapHas(result.before, Val(result.cmd).id)
     /\ IsDefined(Val(result.cmd).title)
     /\ ~ValidTitle(Val(result.cmd).title)) =>
        /\ ~result.ok
        /\ result.class = "Error"
        /\ result.msg \in {EmptyTitleMsg, LongTitleMsg}

(* C15: a failed Update leaves the store untouched: the stored title,      *)
(* description, status and updatedAt are exactly as before the call, also  *)
(* when the command carried a description besides the rejected title.      *)
C15_FailedUpdateWritesNothing ==
    (result.op = "update" /\ ~result.ok) =>
        /\ todos = result.before
        /\ result.calls = <<"findById">>

C15_Witness ==
    /\ result.op = "update" /\ ~result.ok /\ result.class = "Error"
    /\ IsDefined(Val(result.cmd).description)
    /\ mapGet(todos, Val(result.cmd).id).description # Val(result.cmd).description
    /\ result.at > Val(mapGet(todos, Val(result.cmd).id).updatedAt)

(* the title of the command is one UpdateTodo.execute applies *)
TitleApplied(command) == IsDefined(command.title) /\ Val(command.title) # <<>>

(* C16: a successful Update applies exactly the provided fields.  Without  *)
(* a title the stored title is unchanged; without a description the stored *)
(* description is unchanged; a provided description is applied whatever it *)
(* is, the empty string included; id, status and createdAt are unchanged,  *)
(* and updatedAt is refreshed only if some field was applied.              *)
C16_UpdateAppliesProvidedFields ==
    (result.op = "update" /\ result.ok) =>
        LET command == Val(result.cmd)
            old == mapGet(result.before, command.id)
            new == mapGet(todos, command.id)
        IN  /\ mapKeys(todos) = mapKeys(result.before)
            /\ new = Val(result.ret)
            /\ new.id = old.id
            /\ new.status = old.status
            /\ new.createdAt = old.createdAt
            /\ new.title = IF TitleApplied(command)
                           THEN Some(trim(Val(command.title))) ELSE old.title
            /\ new.description = IF IsDefined(command.description)
                                 THEN command.description ELSE old.description
            /\ new.updatedAt = IF TitleApplied(command) \/ IsDefined(command.description)
                               THEN Some(result.at) ELSE old.updatedAt
            /\ \A id \in mapKeys(todos) \ {command.id} :
                   mapGet(todos, id) = mapGet(result.before, id)

C16_Witness ==
    /\ result.op = "update" /\ result.ok
    /\ ~IsDefined(Val(result.cmd).title)
    /\ Val(result.cmd).description = Some("")
    /\ mapGet(result.before, Val(result.cmd).id).description = Some("d1")
    /\ mapGet(todos, Val(result.cmd).id).description = Some("")
    /\ Val(mapGet(todos, Val(result.cmd).id).updatedAt)
           > Val(mapGet(result.before, Val(result.cmd).id).updatedAt)

(* the outcome is the NotFound error for id *)
IsNotFound(o, id) ==
    ~o.ok /\ o.class = "TodoNotFoundException" /\ o.msg = NotFoundMsg(id)

(* the ids of the Todos a List outcome returned *)
ListedIds(ret) == {Val(Val(ret)[i].id) : i \in 1..Len(Val(ret))}

(* C17: after Delete(id) succeeds, Get(id) fails with NotFound, List no    *)
(* longer contains id, a second Delete(id) fails with NotFound, and every  *)
(* other stored Todo is unchanged.                                         *)
C17_DeleteRemovesOnlyThatTodo ==
    (result.op = "delete" /\ result.ok) =>
        LET id == Val(result.cmd) IN
        /\ \A t \in now..MaxClock :
            /\ IsNotFound(GetTodo(todos, id, t), id)
            /\ ListTodos(todos, t).ok
            /\ id \notin ListedIds(ListTodos(todos, t).ret)
            /\ IsNotFound(DeleteTodo(todos, id, t), id)
            /\ DeleteTodo(todos, id, t).todos = todos
        /\ todos = SelectSeq(result.before, LAMBDA e : e.key # id)

C17_Witness ==
    /\ result.op = "delete" /\ result.ok
    /\ Len(result.before) = 2
    /\ Len(todos) = 1
    /\ todos[1].key # Val(result.cmd)

(* the ids created and not deleted since *)
Live == {b[1] : b \in result.born}

(* C18: List never fails and, after any sequential history, returns        *)
(* exactly one Todo for each id that was successfully created and not      *)
(* deleted since (the empty collection when there is none); Get, List and  *)
(* failed calls never add or remove entries.                               *)
C18_ListReturnsLiveTodos ==
    /\ \A t \in now..MaxClock :
        LET o == ListTodos(todos, t) IN
        /\ o.ok
        /\ ListedIds(o.ret) = Live
        /\ Len(Val(o.ret)) = Cardinality(Live)
    /\ result.op = "list" =>
        /\ result.ok
        /\ ListedIds(result.ret) = Live
        /\ Len(Val(result.ret)) = Cardinality(Live)
    /\ (result.op \in {"get", "list"} \/ ~result.ok) => todos = result.before

C18_Witness ==
    /\ result.op = "list" /\ result.ok
    /\ Len(Val(result.ret)) = 2
    /\ Cardinality(Live) = 2

(* C19: Get and List are read-only and repeatable: calling either again    *)
(* with no mutation in between, at any later time, returns a result equal  *)
(* to the first, and neither call changes the store.                       *)
C19_ReadsRepeatable ==
    /\ result.op = "get" =>
        /\ todos = result.before
        /\ \A t \in now..MaxClock :
            LET o == GetTodo(todos, Val(result.cmd), t) IN
            /\ o.ok = result.ok /\ o.class = result.class /\ o.msg = result.msg
            /\ o.ret = result.ret
            /\ o.todos = todos
    /\ result.op = "list" =>
        /\ todos = result.before
        /\ \A t \in now..MaxClock :
            LET o == ListTodos(todos, t) IN
            /\ o.ok = result.ok /\ o.class = result.class /\ o.msg = result.msg
            /\ o.ret = result.ret
            /\ o.todos = todos

C19_Witness ==
    /\ result.op = "get" /\ result.ok
    /\ now > result.at
    /\ now > Val(Val(result.ret).updatedAt)

(* the Todo record carries the id it is stored under and the createdAt     *)
(* Create returned for that id                                             *)
AsBorn(id, rec) == rec.id = Some(id) /\ <<id, Val(rec.createdAt)>> \in result.born

----------------------------------------------------------------------------
(* Specification of concurrent callers: each caller executes one use case  *)
(* at a time; Update, Complete and Delete take two steps, split at the     *)
(* `await` on findById, and any other caller may step in between.  The     *)
(* repository is the adapter chosen when the container was initialized.    *)

MaxProcs == 2     \* number of callers executing use cases at the same time
MaxShared == 1    \* number of Todos the callers contend for

Procs == 1..MaxProcs

IdleProc ==
    [st |-> "idle", op |-> "none", cmd |-> Undef, todo |-> Undef, stale |-> "no"]

NoConcResult ==
    [op |-> "none", id |-> "", ok |-> TRUE, class |-> "", msg |-> "",
     calls |-> <<>>, saw |-> "no"]

(* the store of the wired adapter *)
Store == IF adapter = "memory" THEN todos ELSE collection

SetStore(st) ==
    IF adapter = "memory"
    THEN todos' = st /\ UNCHANGED collection
    ELSE collection' = st /\ UNCHANGED todos

ConcFrame ==
    UNCHANGED <<titleIn, titleOut, todo, last, mresult, adapter, env,
                config, container, mongoClient, callers, server, heap, held>>

ConcIds == storedIds(adapter, Store)

ConcCreateCommands ==
    [title : {Some(<<"\t", "a", " ">>)}, description : {Undef}]

(* an Update of the title alone, and one of the description alone *)
ConcUpdateCommands ==
    {[id |-> id, title |-> Some(<<" ", "b", "\t">>), description |-> Undef] : id \in ConcIds}
    \cup {[id |-> id, title |-> Undef, description |-> Some("d1")] : id \in ConcIds}

(* the id a caller's execution is about *)
ProcId(pr) ==
    IF pr.op = "update" THEN Val(pr.cmd).id
    ELSE IF pr.op \in {"get", "complete", "delete"} THEN Val(pr.cmd)
    ELSE ""

(* caller p took a step that left it as pr; the callers that read id and   *)
(* have not written yet learn what happened to the record since (how):     *)
(* "written" as long as other writers only updated it, "deleted" once it   *)
(* was deleted, "recreated" once a Create stored the same id again         *)
Stepped(p, pr, id, how) ==
    [q \in Procs |->
        IF q = p THEN pr
        ELSE IF procs[q].st = "found" /\ ProcId(procs[q]) = id /\ how # "no"
        THEN [procs[q] EXCEPT !.stale = IF how = "written" /\ @ \in {"deleted", "recreated"}
                                        THEN @ ELSE how]
        ELSE procs[q]]

(* the record of the execution of caller p, as pr, that ended with o; a    *)
(* step that ends no execution leaves NoConcResult                         *)
Ended(p, pr, o) ==
    [op |-> pr.op, id |-> ProcId(pr), ok |-> o.ok, class |-> o.class,
     msg |-> o.msg, calls |-> o.calls, saw |-> pr.stale]

(* CreateTodo.execute runs to its save without awaiting anything *)
ConcCreate(p) ==
    /\ procs[p].st = "idle"
    /\ \E command \in ConcCreateCommands, c \in ClockReads, r \in Rands :
        \E o \in {CreateTodoVia(adapter, Store, command, c, r)} :
        /\ Cardinality(storedIds(adapter, o.todos)) <= MaxShared
        /\ adapter = "mongo" => Len(o.todos.docs) <= MaxShared
        /\ SetStore(o.todos)
        /\ result' = Ended(p, [IdleProc EXCEPT !.op = "create", !.cmd = Some(command)], o)
        /\ procs' = Stepped(p, IdleProc,
                            IF o.ok THEN Val(Val(o.ret).id) ELSE "",
                            IF o.ok THEN "recreated" ELSE "no")
        /\ now' = c[3]
    /\ ConcFrame

(* GetTodo.execute and ListTodos.execute make one repository call *)
ConcGet(p) ==
    /\ procs[p].st = "idle"
    /\ \E id \in ConcIds \cup {"nonexistent-id"} :
        \E o \in {GetTodoVia(adapter, Store, id, now)} :
        result' = Ended(p, [IdleProc EXCEPT !.op = "get", !.cmd = Some(id)], o)
    /\ UNCHANGED <<now, todos, collection, procs>>
    /\ ConcFrame

ConcList(p) ==
    /\ procs[p].st = "idle"
    /\ \E o \in {ListTodosVia(adapter, Store, now)} :
        result' = Ended(p, [IdleProc EXCEPT !.op = "list"], o)
    /\ UNCHANGED <<now, todos, collection, procs>>
    /\ ConcFrame

(* the first step of Update / Complete / Delete: findById *)
ConcFind(p) ==
    /\ procs[p].st = "idle"
    /\ \E op \in {"update", "complete", "delete"} :
       \E cmd \in IF op = "update" THEN ConcUpdateCommands
                  ELSE ConcIds \cup {"nonexistent-id"} :
        LET pr == [IdleProc EXCEPT !.op = op, !.cmd = Some(cmd)] IN
        \E o \in {FindOrThrow(adapter, Store, ProcId(pr), now)} :
        IF o.ok
        THEN /\ procs' = [procs EXCEPT ![p] = [pr EXCEPT !.st = "found",
                                                         !.todo = Some(o.todo)]]
             /\ result' = NoConcResult
        ELSE /\ result' = Ended(p, pr, o)
             /\ UNCHANGED procs
    /\ UNCHANGED <<now, todos, collection>>
    /\ ConcFrame

(* the second step: the entity's mutators and repository.update, or        *)
(* repository.delete; the caller has its answer and may call again         *)
ConcWrite(p) ==
    /\ procs[p].st = "found"
    /\ LET pr == procs[p]
           t0 == Val(pr.todo)
       IN  \E o \in {IF pr.op = "update"
                     THEN UpdateAfterFind(adapter, Store, Val(pr.cmd), t0, now)
                     ELSE IF pr.op = "complete"
                     THEN CompleteAfterFind(adapter, Store, t0, now)
                     ELSE DeleteAfterFind(adapter, Store, Val(pr.cmd))} :
           /\ SetStore(o.todos)
           /\ result' = Ended(p, pr, o)
           /\ procs' = Stepped(p, IdleProc, t0.id,
                               IF o.todos = Store THEN "no"
                               ELSE IF pr.op = "delete" THEN "deleted" ELSE "written")
    /\ UNCHANGED now
    /\ ConcFrame

InitConc ==
    /\ titleIn = <<>> /\ titleOut = Undef /\ now = 0 /\ todo = Undef /\ last = NoCall
    /\ result = NoConcResult
    /\ adapter \in {"memory", "mongo"}
    /\ todos = <<>>
    /\ \/ adapter = "memory" /\ collection = <<>>
       \/ adapter = "mongo" /\ collection \in [docs : {<<>>}, uniqueId : BOOLEAN]
    /\ procs = [p \in Procs |-> IdleProc]
    /\ mresult = <<>> /\ env = <<>> /\ config = <<>> /\ container = <<>>
    /\ mongoClient = <<>> /\ callers = <<>> /\ server = <<>>
    /\ heap = <<>> /\ held = <<>>

NextConc ==
    \/ Tick
    \/ \E p \in Procs : ConcCreate(p)
    \/ \E p \in Procs : ConcGet(p)
    \/ \E p \in Procs : ConcList(p)
    \/ \E p \in Procs : ConcFind(p)
    \/ \E p \in Procs : ConcWrite(p)

SpecConc == InitConc /\ [][NextConc]_vars


----------------------------------------------------------------------------
(* Claims about interleaved use-case executions                            *)

(* caller p, which had read its Todo, takes its second step now and that   *)
(* step reaches repository.update                                          *)
Writes(p) ==
    /\ procs[p].st = "found" /\ procs'[p].st = "idle"
    /\ procs[p].op \in {"update", "complete"}
    /\ procs[p].op = "complete" => isPending(Val(procs[p].todo).status)

(* the serialized Todo caller p hands to repository.update at reading clk: *)
(* the Todo it read, with its own changes and nothing else                 *)
Expected(pr, clk) ==
    LET t0 == Val(pr.todo) IN
    IF pr.op = "complete"
    THEN toObject([t0 EXCEPT !.status = COMPLETED, !.updatedAt = clk])
    ELSE LET command == Val(pr.cmd) IN
         toObject([t0 EXCEPT
             !.title = IF TitleApplied(command) THEN trim(Val(command.title)) ELSE @,
             !.description = IF IsDefined(command.description)
                             THEN Val(command.description) ELSE @,
             !.updatedAt = IF TitleApplied(command) \/ IsDefined(command.description)
                           THEN clk ELSE @])

(* C21: the read-modify-write use cases are unprotected and the last write *)
(* wins: when Update or Complete reaches its update call after another     *)
(* writer has written the same id since its findById, it succeeds and the  *)
(* stored record is exactly the record it wrote, built from what it read:  *)
(* the other writer's title, description and status are overwritten.       *)
C21_LastWriteWins ==
    [][\A p \in Procs :
        (Writes(p) /\ procs[p].stale = "written") =>
            LET id == ProcId(procs[p]) IN
            /\ result'.ok
            /\ id \in storedIds(adapter, Store')
            /\ storedTodo(adapter, Store', id) = Expected(procs[p], now)]_vars

C21_Witness ==
    /\ adapter = "memory"
    /\ result.op = "update" /\ result.saw = "written" /\ result.ok
    /\ Val(storedTodo(adapter, Store, result.id).status) = PENDING
    /\ Val(storedTodo(adapter, Store, result.id).title) = <<"a">>

(* C22: repository update(todo) for an id that is not stored fails and     *)
(* inserts nothing, in both adapters: an Update or Complete whose Todo was *)
(* deleted after its findById fails at its update call and the id stays    *)
(* absent.                                                                 *)
C22_UpdateOfDeletedFails ==
    [][\A p \in Procs :
        (Writes(p) /\ ProcId(procs[p]) \notin storedIds(adapter, Store)) =>
            /\ ~result'.ok
            /\ result'.class = "Error"
            /\ result'.msg = NotFoundMsg(ProcId(procs[p]))
            /\ Store' = Store]_vars

C22_Witness ==
    /\ adapter = "mongo"
    /\ result.op = "complete" /\ result.saw = "deleted" /\ ~result.ok
    /\ result.calls = <<"findById", "update">>
    /\ result.id \notin storedIds(adapter, Store)

(* C26: completion is monotonic in the store under any interleaving: once  *)
(* the stored record of an id has status COMPLETED, no step of Get, List,  *)
(* Update, Complete or Delete leaves that id stored with status PENDING    *)
(* (a Create that draws a stored id again is left aside here).             *)
C26_CompletionMonotonic ==
    [][\A id \in storedIds(adapter, Store) :
        (/\ Val(storedTodo(adapter, Store, id).status) = COMPLETED
         /\ id \in storedIds(adapter, Store')
         /\ result'.op # "create") =>
            Val(storedTodo(adapter, Store', id).status) = COMPLETED]_vars


----------------------------------------------------------------------------
(* Specification of the two adapters side by side: the same sequential     *)
(* history of use cases is executed against an InMemoryTodoRepository      *)
(* (todos, outcome in result) and against a MongoTodoRepository            *)
(* (collection, outcome in mresult), with the same clock readings and the  *)
(* same random draws.  Create is taken when the id it generates is not     *)
(* stored.                                                                 *)

Answer(op, o) == [op |-> op, ok |-> o.ok, class |-> o.class, msg |-> o.msg, ret |-> o.ret]

NoAnswer == [op |-> "none", ok |-> TRUE, class |-> "", msg |-> "", ret |-> Undef]

BothFrame ==
    UNCHANGED <<titleIn, titleOut, todo, last, adapter, procs, env, config,
                container, mongoClient, callers, server, heap, held>>

BothIds == mapKeys(todos) \cup storedIds("mongo", collection) \cup {"nonexistent-id"}

BothUpdateCommands ==
    [id          : BothIds,
     title       : {Undef} \cup {Some(x) : x \in UpdateTitles},
     description : {Undef} \cup {Some(d) : d \in Descriptions}]

BothCreate ==
    /\ \E command \in CreateCommands, c \in ClockReads, r \in Rands :
        \E o \in {CreateTodoVia("memory", todos, command, c, r)},
           mo \in {CreateTodoVia("mongo", collection, command, c, r)} :
        /\ generateId(c[1], r) \notin BothIds
        /\ Len(o.todos) <= MaxTodos
        /\ todos' = o.todos
        /\ collection' = mo.todos
        /\ result' = Answer("create", o)
        /\ mresult' = Answer("create", mo)
        /\ now' = c[3]
    /\ BothFrame

BothGet ==
    /\ \E id \in BothIds :
        \E o \in {GetTodoVia("memory", todos, id, now)},
           mo \in {GetTodoVia("mongo", collection, id, now)} :
        /\ todos' = o.todos
        /\ collection' = mo.todos
        /\ result' = Answer("get", o)
        /\ mresult' = Answer("get", mo)
    /\ UNCHANGED now
    /\ BothFrame

BothList ==
    /\ \E o \in {ListTodosVia("memory", todos, now)},
          mo \in {ListTodosVia("mongo", collection, now)} :
        /\ todos' = o.todos
        /\ collection' = mo.todos
        /\ result' = Answer("list", o)
        /\ mresult' = Answer("list", mo)
    /\ UNCHANGED now
    /\ BothFrame

BothUpdate ==
    /\ \E command \in BothUpdateCommands :
        \E o \in {UpdateTodoVia("memory", todos, command, now)},
           mo \in {UpdateTodoVia("mongo", collection, command, now)} :
        /\ todos' = o.todos
        /\ collection' = mo.todos
        /\ result' = Answer("update", o)
        /\ mresult' = Answer("update", mo)
    /\ UNCHANGED now
    /\ BothFrame

BothComplete ==
    /\ \E id \in BothIds :
        \E o \in {CompleteTodoVia("memory", todos, id, now)},
           mo \in {CompleteTodoVia("mongo", collection, id, now)} :
        /\ todos' = o.todos
        /\ collection' = mo.todos
        /\ result' = Answer("complete", o)
        /\ mresult' = Answer("complete", mo)
    /\ UNCHANGED now
    /\ BothFrame

BothDelete ==
    /\ \E id \in BothIds :
        \E o \in {DeleteTodoVia("memory", todos, id, now)},
           mo \in {DeleteTodoVia("mongo", collection, id, now)} :
        /\ todos' = o.todos
        /\ collection' = mo.todos
        /\ result' = Answer("delete", o)
        /\ mresult' = Answer("delete", mo)
    /\ UNCHANGED now
    /\ BothFrame

InitBoth ==
    /\ titleIn = <<>>
    /\ titleOut = Undef
    /\ now = 0
    /\ todo = Undef
    /\ last = NoCall
    /\ todos = <<>>
    /\ collection \in [docs : {<<>>}, uniqueId : BOOLEAN]
    /\ result = NoAnswer
    /\ mresult = NoAnswer
    /\ adapter = "both"
    /\ procs = <<>> /\ env = <<>> /\ config = <<>> /\ container = <<>>
    /\ mongoClient = <<>> /\ callers = <<>> /\ server = <<>>
    /\ heap = <<>> /\ held = <<>>

NextBoth ==
    \/ Tick
    \/ BothCreate
    \/ BothGet
    \/ BothList
    \/ BothUpdate
    \/ BothComplete
    \/ BothDelete

SpecBoth == InitBoth /\ [][NextBoth]_vars

(* the Todos of a List answer, as a set *)
Listed(ans) == {Val(ans.ret)[i] : i \in 1..Len(Val(ans.ret))}

(* C23: after every call of a sequential history whose Create calls        *)
(* generate ids that are not stored, the in-memory adapter and the MongoDB *)
(* adapter gave the same success or failure, returned the same serialized  *)
(* Todo (List: the same set of Todos, in whatever order), and store the    *)
(* same serialized Todo under the same ids.                                *)
C23_AdaptersInterchangeable ==
    /\ result.ok = mresult.ok
    /\ result.op = mresult.op
    /\ (result.ok /\ result.op = "list") =>
           /\ Listed(result) = Listed(mresult)
           /\ Len(Val(result.ret)) = Len(Val(mresult.ret))
    /\ (result.op # "list") => result.ret = mresult.ret
    /\ mapKeys(todos) = storedIds("mongo", collection)
    /\ \A id \in mapKeys(todos) :
           mapGet(todos, id) = storedTodo("mongo", collection, id)

(* two Todos are stored, one of them updated and completed, and List       *)
(* answers with them in a different order from each adapter                *)
C23_Witness ==
    /\ result.op = "list" /\ result.ok /\ mresult.ok
    /\ Len(Val(result.ret)) = 2
    /\ Val(result.ret) # Val(mresult.ret)
    /\ \E i \in 1..2 : /\ Val(result.ret)[i].status = Some(COMPLETED)
                       /\ Val(result.ret)[i].description = Some("d1")


----------------------------------------------------------------------------
(* TodoController: the response written for the outcome of a use case.     *)

(* error instanceof DomainException: the class itself and its subclass *)
instanceofDomainException(error) ==
    error.class \in {"DomainException", "TodoNotFoundException"}

(* error instanceof Error: every class thrown in this program extends Error *)
instanceofError(error) ==
    error.class \in {"Error", "MongoServerError", "TypeError",
                     "DomainException", "TodoNotFoundException"}

(* handleError(error, res) *)
handleError(error) ==
    IF instanceofDomainException(error)
    THEN [status |-> 404, body |-> Some([error |-> error.msg])]
    ELSE IF instanceofError(error)
    THEN [status |-> 400, body |-> Some([error |-> error.msg])]
    ELSE [status |-> 500, body |-> Some([error |-> "Internal server error"])]

(* what createTodo ... deleteTodo write to res for the use case op that    *)
(* ended as res records                                                    *)
respond(res) ==
    IF ~res.ok THEN handleError(res)
    ELSE IF res.op = "create" THEN [status |-> 201, body |-> res.ret]
    ELSE IF res.op = "delete" THEN [status |-> 204, body |-> Undef]
    ELSE [status |-> 200, body |-> res.ret]

(* C24: the controller answers a failed use case by the class of its       *)
(* error: not found and the domain rejection of completing an already      *)
(* completed Todo give 404, an invalid title gives 400; a successful       *)
(* Delete gives 204 without a body.                                        *)
C24_StatusByErrorClass ==
    (result.op # "none") =>
        /\ (~result.ok /\ result.class = "TodoNotFoundException") =>
               respond(result).status = 404
        /\ (~result.ok /\ result.msg = AlreadyCompletedMsg) =>
               respond(result).status = 404
        /\ (~result.ok /\ result.msg \in {EmptyTitleMsg, LongTitleMsg}) =>
               respond(result).status = 400
        /\ (result.ok /\ result.op = "delete") =>
               respond(result) = [status |-> 204, body |-> Undef]


----------------------------------------------------------------------------
(* MongoDBClient.  The singleton is [client, db, made]: the MongoClient    *)
(* object in this.client and the Db in this.db (null is Undef), each named *)
(* by the number of the MongoClient it came from, and the number of        *)
(* MongoClient objects constructed so far.                                 *)

MaxConnects == 2    \* MongoClient objects constructed at most

NoClient == [client |-> Undef, db |-> Undef, made |-> 0]

DbNotInitializedMsg == "Database not initialized. Call connect() first."

(* isConnected() *)
isConnected(mc) == mc.client # Undef /\ mc.db # Undef

(* getDatabase(): the Db, or the error thrown *)
getDatabase(mc) ==
    IF ~IsDefined(mc.db) THEN Err("Error", DbNotInitializedMsg)
    ELSE [ok |-> TRUE, db |-> Val(mc.db)]

(* connect() up to its await: returns at once when this.client is set,     *)
(* otherwise stores a new MongoClient and awaits its connect()             *)
connectBegin(mc) ==
    IF IsDefined(mc.client) THEN [returned |-> TRUE, mc |-> mc]
    ELSE [returned |-> FALSE,
          mc |-> [mc EXCEPT !.client = Some(mc.made + 1), !.made = mc.made + 1]]

(* connect() after the driver connected: this.db = this.client.db(dbName), *)
(* a TypeError when this.client has been set to null meanwhile             *)
connectEnd(mc) ==
    IF ~IsDefined(mc.client)
    THEN Err("TypeError", "Cannot read properties of null") @@ [mc |-> mc]
    ELSE [ok |-> TRUE, mc |-> [mc EXCEPT !.db = mc.client]]

(* disconnect() after client.close() resolved *)
disconnectEnd(mc) == [mc EXCEPT !.client = Undef, !.db = Undef]

----------------------------------------------------------------------------
(* Specification of the MongoDBClient singleton used by several callers:   *)
(* connect() and disconnect() take a step to call and a step to resume     *)
(* after their await; the driver may connect or fail.  In result,          *)
(* `promised` tells that a connect() has returned without error and        *)
(* neither a disconnect() was called nor one completed since.              *)

IdleCaller == [st |-> "idle"]

NoClientResult == [op |-> "none", by |-> 0, ok |-> TRUE, class |-> "", promised |-> FALSE]

ClientFrame ==
    UNCHANGED <<titleIn, titleOut, now, todo, last, todos, collection, mresult,
                adapter, procs, env, config, container, server, heap, held>>

ClientResult(op, p, o, promised) ==
    [op |-> op, by |-> p, ok |-> o.ok, class |-> IF o.ok THEN "" ELSE o.class,
     promised |-> promised]

ConnectCall(p) ==
    /\ callers[p].st = "idle"
    /\ \E b \in {connectBegin(mongoClient)} :
        /\ b.mc.made <= MaxConnects
        /\ mongoClient' = b.mc
        /\ IF b.returned
           THEN /\ result' = ClientResult("connect", p, [ok |-> TRUE], TRUE)
                /\ UNCHANGED callers
           ELSE /\ callers' = [callers EXCEPT ![p] = [st |-> "connecting"]]
                /\ UNCHANGED result
    /\ ClientFrame

DriverConnected(p) ==
    /\ callers[p].st = "connecting"
    /\ \E e \in {connectEnd(mongoClient)} :
        /\ mongoClient' = e.mc
        /\ result' = ClientResult("connect", p, e, IF e.ok THEN TRUE ELSE result.promised)
    /\ callers' = [callers EXCEPT ![p] = IdleCaller]
    /\ ClientFrame

DriverFailed(p) ==
    /\ callers[p].st = "connecting"
    /\ result' = ClientResult("connect", p, Err("MongoNetworkError", "connect failed"),
                              result.promised)
    /\ callers' = [callers EXCEPT ![p] = IdleCaller]
    /\ UNCHANGED mongoClient
    /\ ClientFrame

DisconnectCall(p) ==
    /\ callers[p].st = "idle"
    /\ IF IsDefined(mongoClient.client)
       THEN /\ callers' = [callers EXCEPT ![p] = [st |-> "closing"]]
            /\ result' = [result EXCEPT !.promised = FALSE]
       ELSE /\ result' = ClientResult("disconnect", p, [ok |-> TRUE], FALSE)
            /\ UNCHANGED callers
    /\ UNCHANGED mongoClient
    /\ ClientFrame

Closed(p) ==
    /\ callers[p].st = "closing"
    /\ mongoClient' = disconnectEnd(mongoClient)
    /\ result' = ClientResult("disconnect", p, [ok |-> TRUE], FALSE)
    /\ callers' = [callers EXCEPT ![p] = IdleCaller]
    /\ ClientFrame

GetDatabaseCall(p) ==
    /\ callers[p].st = "idle"
    /\ result' = ClientResult("getDatabase", p, getDatabase(mongoClient), result.promised)
    /\ UNCHANGED <<mongoClient, callers>>
    /\ ClientFrame

IsConnectedCall(p) ==
    /\ callers[p].st = "idle"
    /\ result' = ClientResult("isConnected", p, [ok |-> isConnected(mongoClient), class |-> "false"],
                              result.promised)
    /\ UNCHANGED <<mongoClient, callers>>
    /\ ClientFrame

InitClient ==
    /\ titleIn = <<>>
    /\ titleOut = Undef
    /\ now = 0
    /\ todo = Undef
    /\ last = NoCall
    /\ todos = <<>>
    /\ result = NoClientResult
    /\ mongoClient = NoClient
    /\ callers = [p \in Procs |-> IdleCaller]
    /\ collection = <<>> /\ mresult = <<>> /\ adapter = <<>> /\ procs = <<>>
    /\ env = <<>> /\ config = <<>> /\ container = <<>> /\ server = <<>>
    /\ heap = <<>> /\ held = <<>>

NextClient ==
    \E p \in Procs :
        \/ ConnectCall(p)
        \/ DriverConnected(p)
        \/ DriverFailed(p)
        \/ DisconnectCall(p)
        \/ Closed(p)
        \/ GetDatabaseCall(p)
        \/ IsConnectedCall(p)

SpecClient == InitClient /\ [][NextClient]_vars

(* C27: from the return of a connect() without error until disconnect()    *)
(* is called, isConnected() is true and getDatabase() returns a database.  *)
C27_ConnectedAfterConnect ==
    result.promised => /\ isConnected(mongoClient)
                       /\ getDatabase(mongoClient).ok


----------------------------------------------------------------------------
(* Config: what the constructor reads from process.env, a record with the  *)
(* variables USE_IN_MEMORY_DB and MONGO_URI (unset is Undef).              *)

DefaultMongoUri == "mongodb://localhost:27017"

Config(e) ==
    [mongoUri      |-> OrElse(e.MONGO_URI, "", DefaultMongoUri),
     useInMemoryDb |-> e.USE_IN_MEMORY_DB = Some("true") \/ e.MONGO_URI = Undef]

(* Config.validate() *)
ConfigValidate(cfg) ==
    IF ~cfg.useInMemoryDb /\ cfg.mongoUri = ""
    THEN Err("Error", "MONGO_URI is required when not using in-memory database")
    ELSE [ok |-> TRUE]

----------------------------------------------------------------------------
(* DependencyContainer.  _mongoClient is a flag (the singleton itself is   *)
(* the variable mongoClient); _todoRepository is the repository object     *)
(* [obj, kind, init], init telling how far its init() got; the six use     *)
(* cases are kept as the repository object each was constructed with.      *)

UseCaseNames ==
    {"createTodoUseCase", "getTodoUseCase", "listTodosUseCase",
     "updateTodoUseCase", "completeTodoUseCase", "deleteTodoUseCase"}

Accessors == {"todoRepository", "todoController"} \cup UseCaseNames

RepositoryNotInitializedMsg == "Repository not initialized. Call initialize() first."
UseCasesNotInitializedMsg == "Use cases not initialized. Call initialize() first."
ControllerNotInitializedMsg == "Controller not initialized. Call initialize() first."

NotInitializedMsgs ==
    {RepositoryNotInitializedMsg, UseCasesNotInitializedMsg, ControllerNotInitializedMsg}

(* the private constructor, for a valid configuration *)
DependencyContainer(cfg) ==
    [mongoClient    |-> ~cfg.useInMemoryDb,
     todoRepository |-> Undef,
     useCases       |-> Undef,
     todoController |-> Undef,
     initialized    |-> "no"]

(* new InMemoryTodoRepository() / new MongoTodoRepository(client) *)
NewRepository(kind) == [obj |-> 1, kind |-> kind, init |-> "none"]

(* whether the repository object has a method init: MongoTodoRepository    *)
(* declares one, InMemoryTodoRepository does not                           *)
hasInit(repo) == repo.kind = "mongo"

(* initializeUseCases(), called with _todoRepository set *)
initializeUseCases(c) ==
    LET repo == Val(c.todoRepository).obj IN
    [c EXCEPT !.useCases = Some([n \in UseCaseNames |-> repo]),
              !.todoController = Some(UseCaseNames)]

(* the getters todoRepository, createTodoUseCase ... todoController *)
accessor(c, name) ==
    IF name = "todoRepository"
    THEN IF ~IsDefined(c.todoRepository) THEN Err("Error", RepositoryNotInitializedMsg)
         ELSE [ok |-> TRUE, ret |-> Val(c.todoRepository).obj]
    ELSE IF name = "todoController"
    THEN IF ~IsDefined(c.todoController) THEN Err("Error", ControllerNotInitializedMsg)
         ELSE [ok |-> TRUE, ret |-> 0]
    ELSE IF ~IsDefined(c.useCases) THEN Err("Error", UseCasesNotInitializedMsg)
         ELSE [ok |-> TRUE, ret |-> Val(c.useCases)[name]]

----------------------------------------------------------------------------
(* Specification of the process: startServer() in index.ts runs from the   *)
(* environment the process was started in, step by step between its        *)
(* awaits; signals arrive at any time; the accessors of the container are  *)
(* read at any time while the process lives.  In result, `done` tells      *)
(* whether initialize() had resolved when the accessor was read.           *)

Signals == {"SIGTERM", "SIGINT"}

Environments ==
    [USE_IN_MEMORY_DB : {Undef, Some("true"), Some("false")},
     MONGO_URI        : {Undef, Some(""), Some("mongodb://db:27017")}]

(* the exit code of a process terminated by a signal it does not handle *)
KilledBy(sig) == IF sig = "SIGTERM" THEN 143 ELSE 130

NoServer ==
    [pc |-> "start", listening |-> FALSE, handlers |-> FALSE, exit |-> Undef,
     closing |-> {}, cleaned |-> FALSE]

NoProbe == [op |-> "none", ok |-> TRUE, msg |-> "", ret |-> 0, done |-> FALSE]

BootFrame ==
    UNCHANGED <<titleIn, titleOut, now, todo, last, todos, collection, mresult,
                adapter, procs, callers, heap, held>>

(* initialize() rejected with what was assigned so far *)
Rejected(c) ==
    /\ container' = Some([c EXCEPT !.initialized = "failed"])
    /\ server' = [server EXCEPT !.pc = "rejected"]

(* line 7: DependencyContainer.getInstance() *)
GetInstance ==
    /\ server.pc = "start"
    /\ config' = Some(Config(env))
    /\ IF ConfigValidate(Config(env)).ok
       THEN /\ container' = Some(DependencyContainer(Config(env)))
            /\ server' = [server EXCEPT !.pc = "constructed"]
       ELSE /\ server' = [server EXCEPT !.pc = "rejected"]
            /\ UNCHANGED container
    /\ UNCHANGED <<env, mongoClient, result>>
    /\ BootFrame

(* line 15: container.initialize() up to its first await *)
InitializeCall ==
    /\ server.pc = "constructed"
    /\ LET c == Val(container) IN
       IF Val(config).useInMemoryDb
       THEN LET repo == NewRepository("memory")
                c1 == [c EXCEPT !.todoRepository = Some(repo)]
            IN  /\ IF hasInit(repo)
                   THEN /\ container' = Some(initializeUseCases(
                                [c1 EXCEPT !.todoRepository = Some([repo EXCEPT !.init = "done"]),
                                           !.initialized = "done"]))
                        /\ server' = [server EXCEPT !.pc = "initialized"]
                   ELSE Rejected(c1)
                /\ UNCHANGED mongoClient
       ELSE \E b \in {connectBegin(mongoClient)} :
                /\ mongoClient' = b.mc
                /\ container' = Some([c EXCEPT !.initialized = "pending"])
                /\ server' = [server EXCEPT !.pc = "connecting"]
    /\ UNCHANGED <<env, config, result>>
    /\ BootFrame

(* the driver connected: connect() resolves, the repository is constructed *)
(* and its init() is awaited                                               *)
InitConnected ==
    /\ server.pc = "connecting"
    /\ \E e \in {connectEnd(mongoClient)} :
        /\ mongoClient' = e.mc
        /\ IF e.ok /\ getDatabase(e.mc).ok
           THEN /\ container' = Some([Val(container) EXCEPT !.todoRepository =
                                   Some([NewRepository("mongo") EXCEPT !.init = "pending"])])
                /\ server' = [server EXCEPT !.pc = "indexing"]
           ELSE Rejected(Val(container))
    /\ UNCHANGED <<env, config, result>>
    /\ BootFrame

(* the driver failed: connect() rethrows *)
InitConnectFailed ==
    /\ server.pc = "connecting"
    /\ Rejected(Val(container))
    /\ UNCHANGED <<env, config, mongoClient, result>>
    /\ BootFrame

(* init() resolved (ensureIndexes swallows its errors): the use cases and  *)
(* the controller are created and initialize() resolves                    *)
InitIndexed ==
    /\ server.pc = "indexing"
    /\ LET c == Val(container)
           repo == [Val(c.todoRepository) EXCEPT !.init = "done"]
       IN  container' = Some(initializeUseCases(
                [c EXCEPT !.todoRepository = Some(repo), !.initialized = "done"]))
    /\ server' = [server EXCEPT !.pc = "initialized"]
    /\ UNCHANGED <<env, config, mongoClient, result>>
    /\ BootFrame

(* lines 18-38: createApp() reads container.todoController, app.listen,    *)
(* and the two signal handlers are registered                              *)
Listen ==
    /\ server.pc = "initialized"
    /\ IF accessor(Val(container), "todoController").ok
       THEN server' = [server EXCEPT !.pc = "listening", !.listening = TRUE,
                                     !.handlers = TRUE]
       ELSE server' = [server EXCEPT !.pc = "rejected"]
    /\ UNCHANGED <<env, config, container, mongoClient, result>>
    /\ BootFrame

(* lines 39-42: catch, process.exit(1) *)
Catch ==
    /\ server.pc = "rejected"
    /\ server' = [server EXCEPT !.pc = "exited", !.exit = Some(1)]
    /\ UNCHANGED <<env, config, container, mongoClient, result>>
    /\ BootFrame

(* Faulty variant of the signal handlers: process.exit(0) without awaiting *)
(* cleanup().                                                              *)
SignalExitsAtOnce(sig) ==
    /\ server.pc # "exited"
    /\ sig \notin server.closing
    /\ IF ~server.handlers
       THEN server' = [server EXCEPT !.pc = "exited", !.exit = Some(KilledBy(sig))]
       ELSE server' = [server EXCEPT !.pc = "exited", !.exit = Some(0)]
    /\ UNCHANGED <<env, config, container, mongoClient, result>>
    /\ BootFrame

(* a signal arrives: without a handler the process is terminated by it;    *)
(* with one (lines 28-38), cleanup() runs up to the await of disconnect(), *)
(* or to its end when there is nothing to close, and then process.exit(0)  *)
Signal(sig) ==
    /\ server.pc # "exited"
    /\ sig \notin server.closing
    /\ IF ~server.handlers
       THEN server' = [server EXCEPT !.pc = "exited", !.exit = Some(KilledBy(sig))]
       ELSE IF Val(container).mongoClient /\ IsDefined(mongoClient.client)
       THEN server' = [server EXCEPT !.closing = @ \cup {sig}]
       ELSE server' = [server EXCEPT !.pc = "exited", !.exit = Some(0),
                                     !.cleaned = TRUE]
    /\ UNCHANGED <<env, config, container, mongoClient, result>>
    /\ BootFrame

(* client.close() resolved for the handler of sig: disconnect() and        *)
(* cleanup() resolve, process.exit(0)                                      *)
CleanedUp(sig) ==
    /\ server.pc # "exited"
    /\ sig \in server.closing
    /\ mongoClient' = disconnectEnd(mongoClient)
    /\ server' = [server EXCEPT !.pc = "exited", !.exit = Some(0), !.cleaned = TRUE]
    /\ UNCHANGED <<env, config, container, result>>
    /\ BootFrame

(* an accessor of the container is read *)
Probe(name) ==
    /\ server.pc # "exited"
    /\ IsDefined(container)
    /\ \E o \in {accessor(Val(container), name)} :
        result' = [op |-> name, ok |-> o.ok, msg |-> IF o.ok THEN "" ELSE o.msg,
                   ret |-> IF o.ok THEN o.ret ELSE 0,
                   done |-> Val(container).initialized = "done"]
    /\ UNCHANGED <<env, config, container, mongoClient, server>>
    /\ BootFrame

InitBoot ==
    /\ titleIn = <<>>
    /\ titleOut = Undef
    /\ now = 0
    /\ todo = Undef
    /\ last = NoCall
    /\ todos = <<>>
    /\ result = NoProbe
    /\ env \in Environments
    /\ config = Undef
    /\ container = Undef
    /\ mongoClient = NoClient
    /\ server = NoServer
    /\ collection = <<>> /\ mresult = <<>> /\ adapter = <<>> /\ procs = <<>>
    /\ callers = <<>> /\ heap = <<>> /\ held = <<>>

NextBoot ==
    \/ GetInstance
    \/ InitializeCall
    \/ InitConnected
    \/ InitConnectFailed
    \/ InitIndexed
    \/ Listen
    \/ Catch
    \/ \E sig \in Signals : Signal(sig)
    \/ \E sig \in Signals : CleanedUp(sig)
    \/ \E name \in Accessors : Probe(name)

SpecBoot == InitBoot /\ [][NextBoot]_vars

(* C25: the adapter is selected by USE_IN_MEMORY_DB alone: 'true' gives    *)
(* the in-memory repository and 'false' the MongoDB repository, whatever   *)
(* MONGO_URI is.                                                           *)
C25_AdapterSelectedByFlag ==
    IsDefined(config) =>
        /\ (env.USE_IN_MEMORY_DB = Some("true")) => Val(config).useInMemoryDb
        /\ (env.USE_IN_MEMORY_DB = Some("false")) => ~Val(config).useInMemoryDb
        /\ (IsDefined(container) /\ IsDefined(Val(container).todoRepository)) =>
               /\ (env.USE_IN_MEMORY_DB = Some("true")) =>
                      Val(Val(container).todoRepository).kind = "memory"
               /\ (env.USE_IN_MEMORY_DB = Some("false")) =>
                      Val(Val(container).todoRepository).kind = "mongo"

(* C28: an accessor read before initialize() has resolved throws a 'not    *)
(* initialized' error; one read after it resolved returns; and once the    *)
(* use cases exist, all six hold the one repository of the container,      *)
(* whose init() has resolved.                                              *)
C28_InitializationGuard ==
    /\ (result.op \in Accessors /\ ~result.done) =>
           ~result.ok /\ result.msg \in NotInitializedMsgs
    /\ (result.op \in Accessors /\ result.done) => result.ok
    /\ (IsDefined(container) /\ IsDefined(Val(container).useCases)) =>
           /\ IsDefined(Val(container).todoRepository)
           /\ Val(Val(container).todoRepository).init = "done"
           /\ \A n \in UseCaseNames :
                  Val(Val(container).useCases)[n] = Val(Val(container).todoRepository).obj

(* C29: the server listens only when initialize() has resolved; a process  *)
(* whose start failed exits with code 1 and has never listened; a process  *)
(* that exits with code 0 does so from a signal handler whose cleanup()    *)
(* has resolved, the MongoDB client being disconnected.                    *)
C29_LifecycleOrder ==
    /\ server.listening =>
           IsDefined(container) /\ Val(container).initialized = "done"
    /\ (server.pc = "rejected" \/ server.exit = Some(1)) => ~server.listening
    /\ (IsDefined(container) /\ Val(container).initialized = "failed") =>
           ~server.listening /\ server.exit \in {Undef, Some(1)} \cup {Some(KilledBy(s)) : s \in Signals}
    /\ (server.exit = Some(0)) =>
           /\ server.handlers /\ server.cleaned
           /\ ~isConnected(mongoClient) /\ ~IsDefined(mongoClient.client)

(* the process listened on a connected MongoDB client and exited with code *)
(* 0 after a signal                                                        *)
C29_Witness ==
    /\ server.exit = Some(0)
    /\ server.listening
    /\ Val(container).mongoClient
    /\ mongoClient.made = 1
    /\ server.closing # {}


----------------------------------------------------------------------------
(* Objects and references.  A Date is an object: the heap is the sequence  *)
(* of the Date objects allocated so far, each holding its time, and a Todo *)
(* entity or a TodoProps object holds in createdAt / updatedAt the index   *)
(* of a Date on the heap.  toObject() and the constructor copy these       *)
(* references; strings are values.  A TodoProps object, once built, is     *)
(* never assigned to, so it is modelled by its value.                      *)

MaxDates == 5     \* Date objects allocated at most
MaxHeld == 2      \* entities the callers hold at most

(* new Date() at clock reading clk *)
newDate(h, clk) == [heap |-> Append(h, clk), ref |-> Len(h) + 1]

(* Faulty variant of the refresh of updatedAt: the Date object the entity  *)
(* holds is set to the new time in place.                                  *)
touchInPlace(h, e, clk) ==
    [heap |-> [h EXCEPT ![e.updatedAt] = clk], todo |-> e]

(* this.updatedAt = new Date() *)
touch(h, e, clk) ==
    LET d == newDate(h, clk) IN
    [heap |-> d.heap, todo |-> [e EXCEPT !.updatedAt = d.ref]]

(* new Todo({ title }) at clock reading clk, with random draw r: both      *)
(* dates are allocated                                                     *)
heapNewTodo(h, title, clk, r) ==
    LET c == newDate(h, clk)
        u == newDate(c.heap, clk)
    IN  [heap |-> u.heap,
         todo |-> [id |-> generateId(clk, r), title |-> TodoTitle(Some(title)).value,
                   description |-> "", status |-> PENDING,
                   createdAt |-> c.ref, updatedAt |-> u.ref]]

(* the four mutators of the entity e, as [ok, heap, todo] *)
heapMutate(h, e, how, clk) ==
    IF how = "updateTitle"
    THEN [ok |-> TRUE] @@ touch(h, [e EXCEPT !.title = <<"b">>], clk)
    ELSE IF how = "updateDescription"
    THEN [ok |-> TRUE] @@ touch(h, [e EXCEPT !.description = "d1"], clk)
    ELSE IF how = "complete"
    THEN IF isCompleted(e.status) THEN [ok |-> FALSE, heap |-> h, todo |-> e]
         ELSE [ok |-> TRUE] @@ touch(h, [e EXCEPT !.status = COMPLETED], clk)
    ELSE IF isPending(e.status) THEN [ok |-> FALSE, heap |-> h, todo |-> e]
         ELSE [ok |-> TRUE] @@ touch(h, [e EXCEPT !.status = PENDING], clk)

(* todo.toObject(), and new Todo(todoData) of props that has every         *)
(* property: the fields and the Date references are copied                 *)
propsOf(e) == e
entityOf(todoData) == todoData

(* what an entity or a stored TodoProps reads as: the dates by their time *)
Seen(h, e) == [e EXCEPT !.createdAt = h[e.createdAt], !.updatedAt = h[e.updatedAt]]

----------------------------------------------------------------------------
(* Specification of the in-memory repository with the entities its callers *)
(* hold: save, findById, findAll and update hand out entities (held), the  *)
(* callers mutate them, write them back with update, or let them go.       *)

Mutators == {"updateTitle", "updateDescription", "complete", "reopen"}

NoHeapResult == [op |-> "none", target |-> 0, ok |-> TRUE]

HeapFrame ==
    UNCHANGED <<titleIn, titleOut, todo, last, collection, mresult, adapter, procs,
                env, config, container, mongoClient, callers, server>>

(* save(new Todo({ title: 'a' })) *)
HeapSave ==
    /\ Len(heap) + 2 <= MaxDates
    /\ Len(held) < MaxHeld
    /\ \E r \in Rands :
        \E n \in {heapNewTodo(heap, <<"a">>, now, r)} :
        /\ ~mapHas(todos, n.todo.id)
        /\ Len(todos) < MaxShared
        /\ heap' = n.heap
        /\ todos' = mapSet(todos, n.todo.id, propsOf(n.todo))
        /\ held' = Append(held, entityOf(propsOf(n.todo)))
        /\ result' = [op |-> "save", target |-> Len(held) + 1, ok |-> TRUE]
    /\ UNCHANGED now
    /\ HeapFrame

(* findById(id) of a stored id *)
HeapFindById ==
    /\ Len(held) < MaxHeld
    /\ \E id \in mapKeys(todos) :
        /\ held' = Append(held, entityOf(mapGet(todos, id)))
        /\ result' = [op |-> "findById", target |-> Len(held) + 1, ok |-> TRUE]
    /\ UNCHANGED <<now, heap, todos>>
    /\ HeapFrame

(* findAll(): the caller keeps the entities in place of those it held *)
HeapFindAll ==
    /\ todos # <<>>
    /\ held' = [i \in 1..Len(todos) |-> entityOf(todos[i].value)]
    /\ result' = [op |-> "findAll", target |-> 0, ok |-> TRUE]
    /\ UNCHANGED <<now, heap, todos>>
    /\ HeapFrame

(* update(held[i]): the caller keeps the entity update returns *)
HeapUpdate(i) ==
    /\ i \in 1..Len(held)
    /\ IF mapHas(todos, held[i].id)
       THEN /\ todos' = mapSet(todos, held[i].id, propsOf(held[i]))
            /\ held' = [held EXCEPT ![i] = entityOf(propsOf(held[i]))]
            /\ result' = [op |-> "update", target |-> i, ok |-> TRUE]
       ELSE /\ result' = [op |-> "update", target |-> i, ok |-> FALSE]
            /\ UNCHANGED <<todos, held>>
    /\ UNCHANGED <<now, heap>>
    /\ HeapFrame

(* delete(id) *)
HeapDelete ==
    /\ \E id \in mapKeys(todos) :
        /\ todos' = mapDelete(todos, id)
        /\ result' = [op |-> "delete", target |-> 0, ok |-> TRUE]
    /\ UNCHANGED <<now, heap, held>>
    /\ HeapFrame

(* held[i].updateTitle('b') / updateDescription('d1') / complete() /       *)
(* reopen()                                                                *)
Mutate(i, how) ==
    /\ i \in 1..Len(held)
    /\ \E o \in {heapMutate(heap, held[i], how, now)} :
        /\ Len(o.heap) <= MaxDates
        /\ heap' = o.heap
        /\ held' = [held EXCEPT ![i] = o.todo]
        /\ result' = [op |-> how, target |-> i, ok |-> o.ok]
    /\ UNCHANGED <<now, todos>>
    /\ HeapFrame

(* the caller lets go of held[i] *)
Release(i) ==
    /\ i \in 1..Len(held)
    /\ held' = SubSeq(held, 1, i - 1) \o SubSeq(held, i + 1, Len(held))
    /\ result' = [op |-> "release", target |-> i, ok |-> TRUE]
    /\ UNCHANGED <<now, heap, todos>>
    /\ HeapFrame

HeapTick ==
    /\ now < MaxClock
    /\ now' = now + 1
    /\ result' = [op |-> "tick", target |-> 0, ok |-> TRUE]
    /\ UNCHANGED <<heap, held, todos>>
    /\ HeapFrame

InitHeap ==
    /\ titleIn = <<>>
    /\ titleOut = Undef
    /\ now = 0
    /\ todo = Undef
    /\ last = NoCall
    /\ todos = <<>>
    /\ result = NoHeapResult
    /\ heap = <<>>
    /\ held = <<>>
    /\ collection = <<>> /\ mresult = <<>> /\ adapter = <<>> /\ procs = <<>>
    /\ env = <<>> /\ config = <<>> /\ container = <<>> /\ mongoClient = <<>>
    /\ callers = <<>> /\ server = <<>>

NextHeap ==
    \/ HeapTick
    \/ HeapSave
    \/ HeapFindById
    \/ HeapFindAll
    \/ HeapDelete
    \/ \E i \in 1..MaxHeld : HeapUpdate(i)
    \/ \E i \in 1..MaxHeld, how \in Mutators : Mutate(i, how)
    \/ \E i \in 1..MaxHeld : Release(i)

SpecHeap == InitHeap /\ [][NextHeap]_vars

(* what findById / findAll return for the stored records, serialized *)
StoredSeen == [i \in 1..Len(todos) |-> Seen(heap, todos[i].value)]

(* C30: a mutator called on an entity a caller holds changes neither what  *)
(* findById / findAll return for any stored id, nor any other entity a     *)
(* caller holds; only save, update and delete change what is stored.       *)
C30_DetachedCopies ==
    [][/\ (result'.op \notin {"save", "update", "delete"}) => StoredSeen' = StoredSeen
       /\ (result'.op \in Mutators) =>
              \A j \in 1..Len(held) :
                  (j # result'.target) => Seen(heap', held'[j]) = Seen(heap, held[j])]_vars

(* an entity read from the repository was mutated with a later clock       *)
(* reading: it now differs from the stored record of its id and from       *)
(* another entity held for the same id                                     *)
C30_Witness ==
    /\ result.op = "complete" /\ result.ok
    /\ Len(held) = 2
    /\ held[1].id = held[2].id
    /\ mapHas(todos, held[1].id)
    /\ Seen(heap, held[result.target]).updatedAt = 1
    /\ Seen(heap, mapGet(todos, held[1].id)).updatedAt = 0
    /\ Seen(heap, held[3 - result.target]) = Seen(heap, mapGet(todos, held[1].id))

============================================================================
